---- MODULE Spec2Model ----
(* Rule engine / turn state machine of the snooker game (SnookerGame      *)
(* component): the React state and refs that the rules read and write,    *)
(* the handlers that change them, and the physics engine seen through     *)
(* the two callbacks it raises (onCollision, onPot).                      *)
EXTENDS Integers, Sequences, FiniteSets, TLC

(* ---------------------------------------------------------------- *)
(* Bounds of the model                                               *)
(* ---------------------------------------------------------------- *)
\* reds racked by setupBalls (15 in the program)
NumReds == 2
\* shots taken in a run (p1Stats.shotsPlayed + p2Stats.shotsPlayed)
MaxShots == 2
\* balls pocketed by the physics engine during one shot
MaxPotsPerShot == 2
\* shots played in a frame on the online host
MaxHostShots == 1

(* ---------------------------------------------------------------- *)
(* Types (BallType, TargetState, Player, GameMode, GameState)        *)
(* ---------------------------------------------------------------- *)
ColourTypes == {"YELLOW", "GREEN", "BROWN", "BLUE", "PINK", "BLACK"}
BallTypes == {"CUE", "RED"} \cup ColourTypes
TargetStates == {"RED", "COLOR"} \cup BallTypes
Players == {"Player 1", "Player 2", "AI"}
GameModes == {"SINGLE_PLAYER", "TWO_PLAYER"}
\* the modes set by the network handlers, never by the menu buttons
OnlineModes == {"ONLINE_HOST", "ONLINE_CLIENT"}
GameStates == {"WELCOME", "MENU", "PLAYING", "GAME_OVER"}
\* EASY is left out of the menu choices: the rules read the difficulty only
\* in the test "difficulty === HARD" of the AI foul decision
Difficulties == {"MEDIUM", "HARD"}
Decisions == {"PLAY", "AGAIN", "FREE"}
\* spin values the striker can set in the spin pad (side, top/back)
SpinVals == {<<0, 0>>, <<1, -1>>}

\* ids given by setupBalls: 0 the cue ball, 1..6 the colours, then the reds
CueId == 0
ColourIds == 1..6
RedIds == 7..(6 + NumReds)
BallIds == 0..(6 + NumReds)
NoBall == -1
\* no placement of the cue ball yet
NoPos == <<>>
null == "null"

\* balls the physics abstraction sets in motion: the cue ball, the reds, and
\* two of the six colours (blue and black); the other colours stay on their spots
ActiveIds == {CueId} \cup RedIds \cup {4, 6}
\* colours a striker nominates
NominatedTypes == {"BLUE", "BLACK"}

BallType(id) ==
    CASE id = 0 -> "CUE"
      [] id = 1 -> "YELLOW"
      [] id = 2 -> "GREEN"
      [] id = 3 -> "BROWN"
      [] id = 4 -> "BLUE"
      [] id = 5 -> "PINK"
      [] id = 6 -> "BLACK"
      [] OTHER  -> "RED"

getBallValue(type) ==
    CASE type = "RED"    -> 1
      [] type = "YELLOW" -> 2
      [] type = "GREEN"  -> 3
      [] type = "BROWN"  -> 4
      [] type = "BLUE"   -> 5
      [] type = "PINK"   -> 6
      [] type = "BLACK"  -> 7
      [] OTHER           -> 0

\* the value field createBall stores in each ball
BallValue(id) == getBallValue(BallType(id))

\* a ball as the rules see it: the potted flag, and whether its position
\* lies inside the capture radius of a pocket (pos is not changed by a pot)
setupBalls == [id \in BallIds |-> [potted |-> FALSE, inPocket |-> FALSE]]

Max(a, b) == IF a >= b THEN a ELSE b
Min(a, b) == IF a <= b THEN a ELSE b

\* the engine's table, reduced to one rail: a pocket at cell PocketPos, a
\* cushion behind cell TableLen, balls of radius one cell
NumPhysBalls == 3
TableLen == 4
PhysIds == 0..(NumPhysBalls - 1)
PocketPos == 0
PhysCells == 0..TableLen
PhysVels == {-1, 0, 1}
\* a layout at rest with every ball on the table and no two in contact
restingBalls == [b \in PhysIds |-> [pos |-> 1 + b, vel |-> 0, potted |-> FALSE]]

VARIABLES
    gameState, gameMode, difficulty, currentPlayer,
    balls, ballsMoving,
    scoreP1, scoreP2, currentBreak, stats,
    targetState, spin,
    showColorSelection, foulDecisionNeeded, offerFreeBall, isFreeBall,
    ballInHand, isMoving, isShooting,
    touchingBall, aiTouching,
    turnStatus, foulNotification,
    shotPots, struckTouching, cuePlacedAt,
    turnTimer, stepDt,
    pballs, potLog, collLog,
    layout, lookTarget, isSnookered, aiShot, kin,
    movingRef, loopClosure, turnEnds,
    isInputBlocked, hasPlayedWelcome, welcomeTimer, welcomeDeps,
    running, rafId, last, acc, tickLog,
    fnIn, fnOut

\* loop timing (turnTimerRef, the dt of the latest updatePhysics call) and
\* the engine's view of a small table (positions, velocities, callbacks)
engineVars == <<stepDt, pballs, potLog, collLog>>

\* the arguments and the result of the helpers checked on their own
\* the arguments and the result of the latest call of the other helpers
callVars == <<fnIn, fnOut>>
fnVars == <<layout, lookTarget, isSnookered, aiShot, kin, callVars>>

\* refs, closures and timers of the component's hooks
frameVars == <<movingRef, loopClosure, turnEnds>>
welcomeVars == <<isInputBlocked, hasPlayedWelcome, welcomeTimer, welcomeDeps>>
\* the refs of usePhysicsLoop, its running argument, and what its latest
\* frame callback did
rafVars == <<running, rafId, last, acc, tickLog>>
hookVars == <<frameVars, welcomeVars, rafVars>>

vars == <<gameState, gameMode, difficulty, currentPlayer, balls, ballsMoving,
          scoreP1, scoreP2, currentBreak, stats, targetState, spin,
          showColorSelection, foulDecisionNeeded, offerFreeBall, isFreeBall,
          ballInHand, isMoving, isShooting, touchingBall, aiTouching,
          turnStatus, foulNotification, shotPots, struckTouching,
          cuePlacedAt, turnTimer, stepDt, pballs, potLog, collLog, fnVars, hookVars>>

freshTurnStatus ==
    [potted |-> FALSE, foul |-> FALSE, firstHitType |-> null,
     pottedBall |-> NoBall, pushShot |-> FALSE]

\* the component's state after the first render
InitGame ==
    /\ gameState = "WELCOME"
    /\ gameMode = "SINGLE_PLAYER"
    /\ difficulty = "MEDIUM"
    /\ currentPlayer = "Player 1"
    /\ balls = setupBalls
    /\ ballsMoving = FALSE
    /\ scoreP1 = 0
    /\ scoreP2 = 0
    /\ currentBreak = 0
    /\ stats = [p1 |-> 0, p2 |-> 0]
    /\ targetState = "RED"
    /\ spin = <<0, 0>>
    /\ showColorSelection = FALSE
    /\ foulDecisionNeeded = FALSE
    /\ offerFreeBall = FALSE
    /\ isFreeBall = FALSE
    /\ ballInHand = FALSE
    /\ isMoving = FALSE
    /\ isShooting = FALSE
    /\ touchingBall = null
    /\ aiTouching = null
    /\ turnStatus = freshTurnStatus
    /\ foulNotification = [active |-> FALSE, message |-> "", points |-> 0]
    /\ shotPots = {}
    /\ struckTouching = null
    /\ cuePlacedAt = NoPos
    /\ turnTimer = 0
    /\ stepDt = 0
    /\ potLog = <<>>
    /\ collLog = {}
    /\ movingRef = FALSE
    /\ loopClosure = [currentPlayer |-> "Player 1", targetState |-> "RED",
                      isFreeBall |-> FALSE, paused |-> FALSE]
    /\ turnEnds = 0
    /\ isInputBlocked = FALSE
    /\ hasPlayedWelcome = FALSE
    /\ welcomeTimer = "none"
    /\ welcomeDeps = <<"WELCOME", "SINGLE_PLAYER">>
    /\ running = FALSE
    /\ rafId = null
    /\ last = 0
    /\ acc = 0
    /\ tickLog = [t |-> 0, elapsed |-> 0, frameDt |-> 0, calls |-> <<>>]

\* no helper has been called on its own
FnIdle ==
    /\ layout = <<>>
    /\ lookTarget = null
    /\ isSnookered = <<>>
    /\ aiShot = <<>>
    /\ kin = <<>>
    /\ fnIn = <<>>
    /\ fnOut = <<>>

Init ==
    /\ InitGame
    /\ pballs = restingBalls
    /\ FnIdle

(* ---------------------------------------------------------------- *)
(* Helpers of the rule engine                                        *)
(* ---------------------------------------------------------------- *)
OnTable(bs) == {id \in BallIds : ~bs[id].potted}
RedsOnTable(bs) == {id \in RedIds : ~bs[id].potted}
ObjectsOnTable(bs) == {id \in BallIds : ~bs[id].potted /\ BallType(id) # "CUE"}

\* sorted[0] of the on-table object balls sorted by value (the cheapest)
LowestOnTable(bs) ==
    CHOOSE id \in ObjectsOnTable(bs) :
        \A o \in ObjectsOnTable(bs) :
            BallValue(id) < BallValue(o) \/ (BallValue(id) = BallValue(o) /\ id <= o)

\* legal first contact for the target / free-ball state
ValidHit(hit, free, target) ==
    IF free THEN hit # "CUE"
    ELSE IF target = "RED" THEN hit = "RED"
    ELSE IF target = "COLOR" THEN hit # "RED" /\ hit # "CUE"
    ELSE hit = target

\* legal pot for the target / free-ball state
ValidPot(type, free, target) ==
    IF free THEN type # "CUE"
    ELSE IF target = "RED" THEN type = "RED"
    ELSE IF target = "COLOR" THEN type # "RED" /\ type # "CUE"
    ELSE type = target

\* the touching ball may be played away from (takeShot's isValidTouch)
ValidTouch(tType, free, target) ==
    IF free THEN TRUE
    ELSE IF target = "RED" THEN tType = "RED"
    ELSE IF target = "COLOR" THEN tType # "RED"
    ELSE tType = target

TargetVal(target) ==
    IF target = "RED" \/ target = "COLOR" THEN 4 ELSE getBallValue(target)


\* ContactFoul with the cue-ball test put before the push-shot test
ContactFoulCueFirst(st, tb, free, target) ==
    IF st.foul THEN
        [isFoul |-> TRUE, msg |-> "Cue ball potted",
         penalty |-> Max(4, Max(TargetVal(target),
                                IF st.firstHitType # null
                                THEN getBallValue(st.firstHitType) ELSE 4))]
    ELSE IF st.pushShot THEN
        [isFoul |-> TRUE, msg |-> "Push Shot (Hit into touching ball)",
         penalty |-> Max(4, Max(TargetVal(target),
                                IF tb # null THEN getBallValue(tb) ELSE 4))]
    ELSE IF st.firstHitType = null THEN
        [isFoul |-> TRUE, msg |-> "Missed all balls",
         penalty |-> Max(4, TargetVal(target))]
    ELSE IF ~ValidHit(st.firstHitType, free, target) THEN
        [isFoul |-> TRUE,
         msg |-> IF target = "RED" THEN "Hit Color first"
                 ELSE IF target = "COLOR" THEN "Hit Red first"
                 ELSE "Hit wrong ball (Hit " \o st.firstHitType \o ")",
         penalty |-> Max(4, Max(getBallValue(st.firstHitType), TargetVal(target)))]
    ELSE [isFoul |-> FALSE, msg |-> "FOUL", penalty |-> 4]

\* ContactFoul without the branch for a shot that contacts no ball
ContactFoulNoMiss(st, tb, free, target) ==
    IF st.pushShot THEN
        [isFoul |-> TRUE, msg |-> "Push Shot (Hit into touching ball)",
         penalty |-> Max(4, Max(TargetVal(target),
                                IF tb # null THEN getBallValue(tb) ELSE 4))]
    ELSE IF st.foul THEN
        [isFoul |-> TRUE, msg |-> "Cue ball potted",
         penalty |-> Max(4, Max(TargetVal(target),
                                IF st.firstHitType # null
                                THEN getBallValue(st.firstHitType) ELSE 4))]
    ELSE IF st.firstHitType # null /\ ~ValidHit(st.firstHitType, free, target) THEN
        [isFoul |-> TRUE,
         msg |-> IF target = "RED" THEN "Hit Color first"
                 ELSE IF target = "COLOR" THEN "Hit Red first"
                 ELSE "Hit wrong ball (Hit " \o st.firstHitType \o ")",
         penalty |-> Max(4, Max(getBallValue(st.firstHitType), TargetVal(target)))]
    ELSE [isFoul |-> FALSE, msg |-> "FOUL", penalty |-> 4]

\* first stage of handleTurnEnd: the foul decided by the kind of contact.
\* st is the turn status, tb the touching ball handleTurnEnd sees.
ContactFoul(st, tb, free, target) ==
    IF st.pushShot THEN
        [isFoul |-> TRUE, msg |-> "Push Shot (Hit into touching ball)",
         penalty |-> Max(4, Max(TargetVal(target),
                                IF tb # null THEN getBallValue(tb) ELSE 4))]
    ELSE IF st.foul THEN
        [isFoul |-> TRUE, msg |-> "Cue ball potted",
         penalty |-> Max(4, Max(TargetVal(target),
                                IF st.firstHitType # null
                                THEN getBallValue(st.firstHitType) ELSE 4))]
    ELSE IF st.firstHitType = null THEN
        [isFoul |-> TRUE, msg |-> "Missed all balls",
         penalty |-> Max(4, TargetVal(target))]
    ELSE IF ~ValidHit(st.firstHitType, free, target) THEN
        [isFoul |-> TRUE,
         msg |-> IF target = "RED" THEN "Hit Color first"
                 ELSE IF target = "COLOR" THEN "Hit Red first"
                 ELSE "Hit wrong ball (Hit " \o st.firstHitType \o ")",
         penalty |-> Max(4, Max(getBallValue(st.firstHitType), TargetVal(target)))]
    ELSE [isFoul |-> st.foul, msg |-> "FOUL", penalty |-> 4]

\* second stage: an illegal pot is a foul only if no contact foul was found
PotFoul(prev, st, free, target) ==
    IF ~prev.isFoul /\ st.potted /\ st.pottedBall # NoBall
       /\ ~ValidPot(BallType(st.pottedBall), free, target)
    THEN [isFoul |-> TRUE,
          msg |-> IF target = "RED" THEN "Potted " \o BallType(st.pottedBall)
                  ELSE IF target = "COLOR" THEN "Potted RED"
                  ELSE "Potted wrong color",
          penalty |-> Max(4, Max(BallValue(st.pottedBall), TargetVal(target)))]
    ELSE prev

FoulCheck(st, tb, free, target) ==
    PotFoul(ContactFoul(st, tb, free, target), st, free, target)

\* respawnBall: the flag is cleared first; only a colour has a spot to go to
respawnBall(bs, id) ==
    [bs EXCEPT ![id] = [potted |-> FALSE,
                        inPocket |-> IF BallType(id) \in ColourTypes
                                     THEN FALSE ELSE @.inPocket]]

\* switchTurn: the next target
SwitchTarget(bs, target) ==
    IF RedsOnTable(bs) # {} THEN "RED"
    ELSE IF ObjectsOnTable(bs) # {} THEN BallType(LowestOnTable(bs))
    ELSE target

\* SwitchPlayer that leaves the striker at the table
SwitchPlayerStays(p, mode) == p

\* switchTurn: the next striker
SwitchPlayer(p, mode) ==
    IF mode = "SINGLE_PLAYER"
    THEN (IF p = "Player 1" THEN "AI" ELSE "Player 1")
    ELSE (IF p = "Player 1" THEN "Player 2" ELSE "Player 1")

\* checkIsSnookered needs the cue ball on the table, a legal target, and
\* for every legal target another object ball to stand in the way
LegalTargets(bs, target) ==
    IF target = "RED" THEN RedsOnTable(bs)
    ELSE IF target = "COLOR"
         THEN {id \in ObjectsOnTable(bs) : BallType(id) # "RED"}
    ELSE {id \in OnTable(bs) : BallType(id) = target}

CanBeSnookered(bs, target) ==
    /\ ~bs[CueId].potted
    /\ LegalTargets(bs, target) # {}
    /\ \A t \in LegalTargets(bs, target) : ObjectsOnTable(bs) \ {t} # {}

\* the target handleTurnEnd tests the snooker on after a foul
NextTargetAfterFoul(bs) ==
    IF RedsOnTable(bs) # {} THEN "RED"
    ELSE IF ObjectsOnTable(bs) # {} THEN BallType(LowestOnTable(bs))
    ELSE "RED"

\* PotPoints without the free-ball rule
PotPointsFaceValue(id, free) == BallValue(id)

\* points of a legal pot
PotPoints(id, free) ==
    IF free /\ BallType(id) # "RED" THEN 1 ELSE BallValue(id)

\* PotOutcome with the nominated colour passed on to the clearance branch
\* while reds remain (the colour stays down, the target moves on)
PotOutcomeNoRedCheck(bs, id, free, target) ==
    LET remainingReds == Cardinality(RedsOnTable(bs)) IN
    IF free THEN
        [balls |-> respawnBall(bs, id), target |-> "COLOR", select |-> TRUE,
         continues |-> TRUE, over |-> FALSE]
    ELSE IF BallType(id) = "RED" THEN
        [balls |-> bs, target |-> "COLOR", select |-> TRUE,
         continues |-> TRUE, over |-> FALSE]
    ELSE IF target = "COLOR" THEN
        [balls |-> respawnBall(bs, id),
         target |-> IF remainingReds > 0 THEN "RED" ELSE "YELLOW",
         select |-> FALSE, continues |-> TRUE, over |-> FALSE]
    ELSE IF BallType(id) = target THEN
        IF ObjectsOnTable(bs) # {}
        THEN [balls |-> bs, target |-> BallType(LowestOnTable(bs)),
              select |-> FALSE, continues |-> TRUE, over |-> FALSE]
        ELSE [balls |-> bs, target |-> target, select |-> FALSE,
              continues |-> TRUE, over |-> TRUE]
    ELSE [balls |-> bs, target |-> target, select |-> FALSE,
          continues |-> FALSE, over |-> FALSE]

\* what a legal pot does to the table and the target
PotOutcome(bs, id, free, target) ==
    LET remainingReds == Cardinality(RedsOnTable(bs)) IN
    IF free THEN
        [balls |-> respawnBall(bs, id), target |-> "COLOR", select |-> TRUE,
         continues |-> TRUE, over |-> FALSE]
    ELSE IF BallType(id) = "RED" THEN
        [balls |-> bs, target |-> "COLOR", select |-> TRUE,
         continues |-> TRUE, over |-> FALSE]
    ELSE IF target = "COLOR" THEN
        [balls |-> respawnBall(bs, id),
         target |-> IF remainingReds > 0 THEN "RED" ELSE "YELLOW",
         select |-> FALSE, continues |-> TRUE, over |-> FALSE]
    ELSE IF remainingReds > 0 THEN
        [balls |-> respawnBall(bs, id), target |-> "RED", select |-> FALSE,
         continues |-> TRUE, over |-> FALSE]
    ELSE IF BallType(id) = target THEN
        IF ObjectsOnTable(bs) # {}
        THEN [balls |-> bs, target |-> BallType(LowestOnTable(bs)),
              select |-> FALSE, continues |-> TRUE, over |-> FALSE]
        ELSE [balls |-> bs, target |-> target, select |-> FALSE,
              continues |-> TRUE, over |-> TRUE]
    ELSE [balls |-> bs, target |-> target, select |-> FALSE,
          continues |-> FALSE, over |-> FALSE]


(* ---------------------------------------------------------------- *)
(* Effects that run after the commit of every handler                *)
(* ---------------------------------------------------------------- *)
\* balls the cue ball can be found touching (at most 2 radii + 0.5 away)
TouchingCandidates(bs) ==
    {null} \cup {BallType(id) : id \in {o \in ObjectsOnTable(bs) \cap ActiveIds : ~bs[o].inPocket}}

\* the AI effect has a shot timer pending in this state
AIShotArmed(gs, sel, dec, p, mov, sh, bih) ==
    gs = "PLAYING" /\ ~sel /\ ~dec /\ p = "AI" /\ ~mov /\ ~sh /\ ~bih

\* "Check for Touching Ball" effect (deps balls, isMoving, gameState,
\* ballInHand) followed by the closure the AI shot timer is created with
\* (the AI effect does not depend on touchingBall, so its timer keeps the
\* takeShot of the render that preceded the touching-ball update).
\* setBallsCalled: the handler called setBalls; rack: with the initial layout.
Effects(setBallsCalled, rack) ==
    /\ IF setBallsCalled \/ isMoving' # isMoving \/ gameState' # gameState
          \/ ballInHand' # ballInHand
       THEN IF gameState' = "PLAYING" /\ ~isMoving' /\ ~ballInHand'
            THEN touchingBall' \in (IF rack THEN {null} ELSE TouchingCandidates(balls'))
            ELSE touchingBall' = null
       ELSE touchingBall' = touchingBall
    /\ aiTouching' =
         IF AIShotArmed(gameState', showColorSelection', foulDecisionNeeded',
                        currentPlayer', isMoving', isShooting', ballInHand')
         THEN IF <<currentPlayer', isMoving', gameState', isShooting', ballInHand',
                   targetState', difficulty', showColorSelection', foulDecisionNeeded'>>
                 # <<currentPlayer, isMoving, gameState, isShooting, ballInHand,
                      targetState, difficulty, showColorSelection, foulDecisionNeeded>>
              THEN touchingBall ELSE aiTouching
         ELSE null

(* ---------------------------------------------------------------- *)
(* Menu and frame set-up                                             *)
(* ---------------------------------------------------------------- *)
\* "Enter" button of the welcome screen, "Main Menu" of the frame-over modal
GoToMenu ==
    /\ gameState \in {"WELCOME", "GAME_OVER"}
    /\ gameState' = "MENU"
    /\ UNCHANGED <<gameMode, difficulty, currentPlayer, balls, ballsMoving,
                   scoreP1, scoreP2, currentBreak, stats, targetState, spin,
                   showColorSelection, foulDecisionNeeded, offerFreeBall,
                   isFreeBall, ballInHand, isMoving, isShooting, turnStatus,
                   foulNotification, shotPots, struckTouching>>
    /\ UNCHANGED <<turnTimer, engineVars, cuePlacedAt, fnVars, hookVars>>
    /\ Effects(FALSE, FALSE)

SetGameMode(m) ==
    /\ gameState = "MENU"
    /\ gameMode # m
    /\ gameMode' = m
    /\ UNCHANGED <<gameState, difficulty, currentPlayer, balls, ballsMoving,
                   scoreP1, scoreP2, currentBreak, stats, targetState, spin,
                   showColorSelection, foulDecisionNeeded, offerFreeBall,
                   isFreeBall, ballInHand, isMoving, isShooting, turnStatus,
                   foulNotification, shotPots, struckTouching>>
    /\ UNCHANGED <<turnTimer, engineVars, cuePlacedAt, fnVars, hookVars>>
    /\ Effects(FALSE, FALSE)

SetDifficulty(d) ==
    /\ gameState = "MENU"
    /\ difficulty # d
    /\ difficulty' = d
    /\ UNCHANGED <<gameState, gameMode, currentPlayer, balls, ballsMoving,
                   scoreP1, scoreP2, currentBreak, stats, targetState, spin,
                   showColorSelection, foulDecisionNeeded, offerFreeBall,
                   isFreeBall, ballInHand, isMoving, isShooting, turnStatus,
                   foulNotification, shotPots, struckTouching>>
    /\ UNCHANGED <<turnTimer, engineVars, cuePlacedAt, fnVars, hookVars>>
    /\ Effects(FALSE, FALSE)

\* "Start Match" button of the menu
StartMatch ==
    /\ gameState = "MENU"
    /\ balls' = setupBalls
    /\ ballsMoving' = FALSE
    /\ scoreP1' = 0
    /\ scoreP2' = 0
    /\ currentBreak' = 0
    /\ gameState' = "PLAYING"
    /\ currentPlayer' = "Player 1"
    /\ UNCHANGED <<gameMode, difficulty, stats, targetState, spin,
                   showColorSelection, foulDecisionNeeded, offerFreeBall,
                   isFreeBall, ballInHand, isMoving, isShooting, turnStatus,
                   foulNotification, shotPots, struckTouching>>
    /\ UNCHANGED <<turnTimer, engineVars, cuePlacedAt, fnVars, hookVars>>
    /\ Effects(TRUE, TRUE)

\* "Play Again" button of the frame-over modal
PlayAgain ==
    /\ gameState = "GAME_OVER"
    /\ balls' = setupBalls
    /\ ballsMoving' = FALSE
    /\ scoreP1' = 0
    /\ scoreP2' = 0
    /\ currentBreak' = 0
    /\ gameState' = "PLAYING"
    /\ UNCHANGED <<gameMode, difficulty, currentPlayer, stats, targetState, spin,
                   showColorSelection, foulDecisionNeeded, offerFreeBall,
                   isFreeBall, ballInHand, isMoving, isShooting, turnStatus,
                   foulNotification, shotPots, struckTouching>>
    /\ UNCHANGED <<turnTimer, engineVars, cuePlacedAt, fnVars, hookVars>>
    /\ Effects(TRUE, TRUE)

\* spin pad
SetSpin(s) ==
    /\ gameState = "PLAYING"
    /\ spin # s
    /\ spin' = s
    /\ UNCHANGED <<gameState, gameMode, difficulty, currentPlayer, balls,
                   ballsMoving, scoreP1, scoreP2, currentBreak, stats,
                   targetState, showColorSelection, foulDecisionNeeded,
                   offerFreeBall, isFreeBall, ballInHand, isMoving, isShooting,
                   turnStatus, foulNotification, shotPots, struckTouching>>
    /\ UNCHANGED <<turnTimer, engineVars, cuePlacedAt, fnVars, hookVars>>
    /\ Effects(FALSE, FALSE)

(* ---------------------------------------------------------------- *)
(* Taking a shot                                                     *)
(* ---------------------------------------------------------------- *)
ShotsPlayed == stats.p1 + stats.p2

\* the turn status takeShot leaves: tb is the touching ball it sees,
\* pushDir whether the aim has a dot product > 0.05 with the direction to it
StruckStatus(tb, pushDir, free, target) ==
    IF tb # null
    THEN IF pushDir
         THEN [freshTurnStatus EXCEPT !.pushShot = TRUE, !.foul = TRUE]
         ELSE IF ValidTouch(tb, free, target)
              THEN [freshTurnStatus EXCEPT !.firstHitType = tb]
              ELSE freshTurnStatus
    ELSE freshTurnStatus

takeShot(tb, pushDir) ==
    /\ ShotsPlayed < MaxShots
    /\ turnStatus' = StruckStatus(tb, pushDir, isFreeBall, targetState)
    /\ stats' = IF currentPlayer = "Player 1"
                THEN [stats EXCEPT !.p1 = @ + 1]
                ELSE [stats EXCEPT !.p2 = @ + 1]
    /\ ballsMoving' = TRUE
    /\ isMoving' = TRUE
    /\ isShooting' = FALSE
    /\ shotPots' = {}
    /\ struckTouching' = tb
    /\ UNCHANGED <<gameState, gameMode, difficulty, currentPlayer, balls,
                   scoreP1, scoreP2, currentBreak, targetState, spin,
                   showColorSelection, foulDecisionNeeded, offerFreeBall,
                   isFreeBall, ballInHand, foulNotification>>
    /\ turnTimer' = 0
    /\ UNCHANGED <<engineVars, cuePlacedAt, fnVars, hookVars>>
    /\ Effects(FALSE, FALSE)

\* first two lines of handleMouseDown, handleMouseMove and handleMouseUp:
\* online, the pointer is dead while the other side is at the table
MouseAllowed ==
    /\ ~(gameMode = "ONLINE_HOST" /\ currentPlayer = "Player 2")
    /\ ~(gameMode = "ONLINE_CLIENT" /\ currentPlayer = "Player 1")

\* handleMouseDown + handleMouseUp with a drag of more than 5: the stroke
\* starts; on the client the shot is only sent to the host as INPUT_SHOT
HumanCommitShot ==
    /\ MouseAllowed
    /\ gameState = "PLAYING"
    /\ currentPlayer # "AI"
    /\ ~isMoving /\ ~isShooting /\ ~foulDecisionNeeded
    /\ ~showColorSelection /\ ~ballInHand
    /\ ShotsPlayed < MaxShots
    /\ IF gameMode = "ONLINE_CLIENT"
       THEN UNCHANGED vars
       ELSE /\ isShooting' = TRUE
            /\ UNCHANGED <<gameState, gameMode, difficulty, currentPlayer, balls,
                           ballsMoving, scoreP1, scoreP2, currentBreak, stats,
                           targetState, spin, showColorSelection, foulDecisionNeeded,
                           offerFreeBall, isFreeBall, ballInHand, isMoving,
                           turnStatus, foulNotification, shotPots, struckTouching>>
            /\ UNCHANGED <<turnTimer, engineVars, cuePlacedAt, fnVars, hookVars>>
            /\ Effects(FALSE, FALSE)

\* loop, isShooting branch: the stick reaches the ball and takeShot runs
LoopStroke ==
    /\ isShooting
    /\ ~foulDecisionNeeded
    /\ \E pushDir \in BOOLEAN : takeShot(touchingBall, pushDir)

\* AI shot timer
AIShot ==
    /\ AIShotArmed(gameState, showColorSelection, foulDecisionNeeded,
                   currentPlayer, isMoving, isShooting, ballInHand)
    /\ ~balls[CueId].potted
    /\ \E pushDir \in BOOLEAN : takeShot(aiTouching, pushDir)


(* ---------------------------------------------------------------- *)
(* Nomination, foul decision, ball in hand                           *)
(* ---------------------------------------------------------------- *)
\* on the client the choice is only sent to the host as INPUT_NOMINATE
handleColorSelect(ballType) ==
    IF gameMode = "ONLINE_CLIENT" THEN UNCHANGED vars
    ELSE
    /\ targetState' = ballType
    /\ showColorSelection' = FALSE
    /\ UNCHANGED <<gameState, gameMode, difficulty, currentPlayer, balls,
                   ballsMoving, scoreP1, scoreP2, currentBreak, stats, spin,
                   foulDecisionNeeded, offerFreeBall, isFreeBall, ballInHand,
                   isMoving, isShooting, turnStatus, foulNotification,
                   shotPots, struckTouching>>
    /\ UNCHANGED <<turnTimer, engineVars, cuePlacedAt, fnVars, hookVars>>
    /\ Effects(FALSE, FALSE)

\* one of the six buttons of the nomination overlay
NominateButton ==
    /\ gameState = "PLAYING"
    /\ showColorSelection
    /\ \E c \in NominatedTypes : handleColorSelect(c)

\* handleMouseDown on a colour of the table while the selection is pending
NominateClick ==
    /\ MouseAllowed
    /\ gameState = "PLAYING"
    /\ currentPlayer # "AI"
    /\ ~isMoving /\ ~isShooting /\ ~foulDecisionNeeded
    /\ showColorSelection
    /\ \E id \in ColourIds :
          /\ ~balls[id].potted
          /\ BallType(id) \in NominatedTypes
          /\ handleColorSelect(BallType(id))

\* AI nomination timer
AINominate ==
    /\ gameState = "PLAYING"
    /\ currentPlayer = "AI"
    /\ showColorSelection
    /\ \E c \in NominatedTypes : handleColorSelect(c)

\* a decision handler that never passes the turn back
handleFoulDecisionNoPassBack(decision) ==
    IF gameMode = "ONLINE_CLIENT" THEN UNCHANGED vars
    ELSE
    /\ foulDecisionNeeded' = FALSE
    /\ foulNotification' = [foulNotification EXCEPT !.active = FALSE]
    /\ isFreeBall' = (IF decision = "FREE" THEN TRUE ELSE isFreeBall)
    /\ UNCHANGED <<currentBreak, spin, targetState, currentPlayer>>
    /\ UNCHANGED <<gameState, gameMode, difficulty, balls, ballsMoving,
                   scoreP1, scoreP2, stats, showColorSelection, offerFreeBall,
                   ballInHand, isMoving, isShooting, turnStatus, shotPots,
                   struckTouching>>
    /\ UNCHANGED <<turnTimer, engineVars, cuePlacedAt, fnVars, hookVars>>
    /\ Effects(FALSE, FALSE)

\* on the client the decision is only sent to the host as INPUT_DECISION
handleFoulDecision(decision) ==
    IF gameMode = "ONLINE_CLIENT" THEN UNCHANGED vars
    ELSE
    /\ foulDecisionNeeded' = FALSE
    /\ foulNotification' = [foulNotification EXCEPT !.active = FALSE]
    /\ IF decision = "AGAIN"
       THEN /\ currentBreak' = 0
            /\ isFreeBall' = FALSE
            /\ spin' = <<0, 0>>
            /\ targetState' = SwitchTarget(balls, targetState)
            /\ currentPlayer' = SwitchPlayer(currentPlayer, gameMode)
       ELSE /\ isFreeBall' = (IF decision = "FREE" THEN TRUE ELSE isFreeBall)
            /\ UNCHANGED <<currentBreak, spin, targetState, currentPlayer>>
    /\ UNCHANGED <<gameState, gameMode, difficulty, balls, ballsMoving,
                   scoreP1, scoreP2, stats, showColorSelection, offerFreeBall,
                   ballInHand, isMoving, isShooting, turnStatus, shotPots,
                   struckTouching>>
    /\ UNCHANGED <<turnTimer, engineVars, cuePlacedAt, fnVars, hookVars>>
    /\ Effects(FALSE, FALSE)

\* buttons of the foul decision modal (FREE is shown only when offered)
HumanFoulDecision ==
    /\ gameState = "PLAYING"
    /\ foulDecisionNeeded
    /\ currentPlayer # "AI"
    /\ \E d \in Decisions : (d = "FREE" => offerFreeBall) /\ handleFoulDecision(d)

\* AI foul decision timer
AIFoulDecision ==
    /\ gameState = "PLAYING"
    /\ currentPlayer = "AI"
    /\ foulDecisionNeeded
    /\ \E d \in {"PLAY", "AGAIN"} :
          (d = "AGAIN" => difficulty = "HARD") /\ handleFoulDecision(d)

\* points of the table, relative to the centre of the D (BAULK_X, CENTER_Y)
D_RADIUS == 60
PlaceTolerance == 2
InsideD(pos) ==
    pos[1] <= 0 /\ pos[1] * pos[1] + pos[2] * pos[2] <= D_RADIUS * D_RADIUS

\* the test handleMouseDown makes on the point clicked
ClickInRange(pos) ==
    /\ pos[1] <= PlaceTolerance
    /\ pos[1] * pos[1] + pos[2] * pos[2]
          <= (D_RADIUS + PlaceTolerance) * (D_RADIUS + PlaceTolerance)

\* clicks of the striker: a point, and whether a ball on the table lies
\* within two radii of it
ClickPoints == {<<-30, 0>>, <<1, 0>>, <<3, 0>>}
Clicks == [pos : ClickPoints, overlap : BOOLEAN]
\* the point the AI falls back on (its random points lie in the D as well)
AIPlacePoint == <<-20, 0>>

\* the cue ball is put down at pos
PlaceCueBall(pos) ==
    /\ balls' = [balls EXCEPT ![CueId] = [potted |-> FALSE, inPocket |-> FALSE]]
    /\ cuePlacedAt' = pos
    /\ ballInHand' = FALSE
    /\ UNCHANGED <<gameState, gameMode, difficulty, currentPlayer, ballsMoving,
                   scoreP1, scoreP2, currentBreak, stats, targetState, spin,
                   showColorSelection, foulDecisionNeeded, offerFreeBall,
                   isFreeBall, isMoving, isShooting, turnStatus,
                   foulNotification, shotPots, struckTouching>>
    /\ UNCHANGED <<turnTimer, engineVars, fnVars, hookVars>>
    /\ Effects(TRUE, FALSE)

\* handleMouseDown, ball-in-hand branch, for one click: out of range it
\* returns, on an overlap it only shows a message, else it places the ball
PlaceClick(click) ==
    IF ClickInRange(click.pos) /\ ~click.overlap
    THEN PlaceCueBall(click.pos)
    ELSE UNCHANGED vars

HumanPlaceBall ==
    /\ MouseAllowed
    /\ gameState = "PLAYING"
    /\ currentPlayer # "AI"
    /\ ~isMoving /\ ~isShooting /\ ~foulDecisionNeeded
    /\ ~showColorSelection
    /\ ballInHand
    /\ \E click \in Clicks : PlaceClick(click)

\* AI ball placement timer (random point of the D, else the fallback point)
AIPlaceBall ==
    /\ gameState = "PLAYING"
    /\ ~showColorSelection /\ ~foulDecisionNeeded
    /\ currentPlayer = "AI"
    /\ ballInHand
    /\ PlaceCueBall(AIPlacePoint)

(* ---------------------------------------------------------------- *)
(* The physics engine as the game loop sees it                       *)
(* ---------------------------------------------------------------- *)
\* the loop reaches updatePhysics in this frame
PhysicsRuns == ~foulDecisionNeeded /\ ~isShooting

\* a collision handler that keeps the latest contact of the cue ball
onCollisionLatest(st, b1, b2) ==
    IF BallType(b1) = "CUE" THEN [st EXCEPT !.firstHitType = BallType(b2)]
    ELSE IF BallType(b2) = "CUE" THEN [st EXCEPT !.firstHitType = BallType(b1)]
    ELSE st

\* onCollision: the first contact of the cue ball is latched
onCollision(st, b1, b2) ==
    IF st.firstHitType = null
    THEN IF BallType(b1) = "CUE" THEN [st EXCEPT !.firstHitType = BallType(b2)]
         ELSE IF BallType(b2) = "CUE" THEN [st EXCEPT !.firstHitType = BallType(b1)]
         ELSE st
    ELSE st

\* handlePot: what a pocketed ball leaves in the turn status
handlePot(st, id) ==
    IF BallType(id) = "CUE" THEN [st EXCEPT !.foul = TRUE]
    ELSE [st EXCEPT !.potted = TRUE, !.pottedBall = id]

\* two balls on the table meet while the balls are in motion
PhysicsCollision ==
    /\ PhysicsRuns
    /\ ballsMoving
    /\ \E b1 \in OnTable(balls) \cap ActiveIds, b2 \in OnTable(balls) \cap ActiveIds :
          /\ b1 < b2
          /\ ~balls[b1].inPocket /\ ~balls[b2].inPocket
          /\ turnStatus' = onCollision(turnStatus, b1, b2)
    /\ UNCHANGED <<gameState, gameMode, difficulty, currentPlayer, balls,
                   ballsMoving, scoreP1, scoreP2, currentBreak, stats,
                   targetState, spin, showColorSelection, foulDecisionNeeded,
                   offerFreeBall, isFreeBall, ballInHand, isMoving, isShooting,
                   foulNotification, shotPots, struckTouching>>
    /\ UNCHANGED <<turnTimer, engineVars, cuePlacedAt, fnVars, hookVars>>
    /\ Effects(FALSE, FALSE)

\* pocket detection: a ball that is not potted and whose centre is inside a
\* pocket is captured.  A moving ball can get there (an object ball only
\* after the cue ball made a contact); a ball left in a pocket with its
\* flag cleared is captured by the next step.
PhysicsPot ==
    /\ PhysicsRuns
    /\ \E id \in OnTable(balls) :
          /\ \/ balls[id].inPocket
             \/ /\ ballsMoving
                /\ id \in ActiveIds
                /\ (id \in RedIds => \A r \in RedsOnTable(balls) : id <= r)
                /\ Cardinality(shotPots) < MaxPotsPerShot
                /\ (id = CueId \/ turnStatus.firstHitType # null)
          /\ balls' = [balls EXCEPT ![id] = [potted |-> TRUE, inPocket |-> TRUE]]
          /\ turnStatus' = handlePot(turnStatus, id)
          /\ shotPots' = IF isMoving THEN shotPots \cup {id} ELSE shotPots
    /\ UNCHANGED <<gameState, gameMode, difficulty, currentPlayer,
                   ballsMoving, scoreP1, scoreP2, currentBreak, stats,
                   targetState, spin, showColorSelection, foulDecisionNeeded,
                   offerFreeBall, isFreeBall, ballInHand, isMoving, isShooting,
                   foulNotification, struckTouching>>
    /\ UNCHANGED <<turnTimer, engineVars, cuePlacedAt, fnVars, hookVars>>
    /\ Effects(FALSE, FALSE)


(* ---------------------------------------------------------------- *)
(* End of shot                                                       *)
(* ---------------------------------------------------------------- *)
\* balls lying in a pocket with the flag cleared: the physics step of the
\* last frame captures them (in array order) before the turn is resolved
Stranded(bs) == {id \in BallIds : ~bs[id].potted /\ bs[id].inPocket}

SweepBalls(bs) ==
    [id \in BallIds |-> IF id \in Stranded(bs)
                        THEN [potted |-> TRUE, inPocket |-> TRUE] ELSE bs[id]]

SweepStatus(bs, st) ==
    LET objs == Stranded(bs) \ {CueId}
        st1 == IF CueId \in Stranded(bs) THEN handlePot(st, CueId) ELSE st
    IN IF objs = {} THEN st1
       ELSE handlePot(st1, CHOOSE id \in objs : \A o \in objs : o <= id)

\* handleTurnEnd, foul branch: the table after the cue ball is put back and
\* the last potted ball, when it is not a red, is respawned
FoulBalls(bs, st) ==
    LET bsCue == IF bs[CueId].potted
                 THEN [bs EXCEPT ![CueId] = [potted |-> FALSE, inPocket |-> FALSE]]
                 ELSE bs
    IN IF st.pottedBall # NoBall /\ BallType(st.pottedBall) # "RED"
       THEN respawnBall(bsCue, st.pottedBall) ELSE bsCue

\* FoulScore with the penalty charged to the wrong side
FoulScoreToOffender(score, side, striker, penalty) ==
    IF (striker = "Player 1") = (side = "Player 1") THEN score + penalty ELSE score

\* score of a side after the resolution: side is "Player 1" or the other one
FoulScore(score, side, striker, penalty) ==
    IF (striker = "Player 1") = (side = "Player 1") THEN score ELSE score + penalty

PotScore(score, side, striker, points) ==
    IF (striker = "Player 1") = (side = "Player 1") THEN score + points ELSE score

handleTurnEnd(bs, st) ==
    LET fc == FoulCheck(st, touchingBall, isFreeBall, targetState) IN
    /\ isMoving' = FALSE
    /\ ballsMoving' = FALSE
    /\ turnStatus' = st
    /\ IF fc.isFoul THEN
          LET bsF == FoulBalls(bs, st) IN
          /\ foulNotification' = [active |-> TRUE, message |-> fc.msg, points |-> fc.penalty]
          /\ scoreP1' = FoulScore(scoreP1, "Player 1", currentPlayer, fc.penalty)
          /\ scoreP2' = FoulScore(scoreP2, "Player 2", currentPlayer, fc.penalty)
          /\ balls' = bsF
          /\ ballInHand' = (IF bs[CueId].potted THEN TRUE ELSE ballInHand)
          /\ currentBreak' = 0
          /\ isFreeBall' = FALSE
          /\ spin' = <<0, 0>>
          /\ targetState' = SwitchTarget(bsF, targetState)
          /\ currentPlayer' = SwitchPlayer(currentPlayer, gameMode)
          /\ \E snookered \in BOOLEAN :
                /\ snookered => (~ballInHand /\ CanBeSnookered(bsF, NextTargetAfterFoul(bsF)))
                /\ offerFreeBall' = snookered
          /\ foulDecisionNeeded' = TRUE
          /\ UNCHANGED <<gameState, showColorSelection>>
          /\ Effects(st.pottedBall # NoBall /\ BallType(st.pottedBall) # "RED", FALSE)
       ELSE IF st.potted /\ st.pottedBall # NoBall THEN
          LET points == PotPoints(st.pottedBall, isFreeBall)
              out == PotOutcome(bs, st.pottedBall, isFreeBall, targetState)
          IN
          /\ currentBreak' = (IF out.continues THEN currentBreak + points ELSE 0)
          /\ scoreP1' = PotScore(scoreP1, "Player 1", currentPlayer, points)
          /\ scoreP2' = PotScore(scoreP2, "Player 2", currentPlayer, points)
          /\ balls' = out.balls
          /\ gameState' = (IF out.over THEN "GAME_OVER" ELSE gameState)
          /\ showColorSelection' = (IF out.select THEN TRUE ELSE showColorSelection)
          /\ isFreeBall' = (IF out.continues /\ ~out.over THEN
                               (IF isFreeBall THEN FALSE ELSE isFreeBall)
                            ELSE IF out.over THEN isFreeBall ELSE FALSE)
          /\ spin' = <<0, 0>>
          /\ targetState' = (IF out.continues THEN out.target
                             ELSE SwitchTarget(out.balls, out.target))
          /\ currentPlayer' = (IF out.continues THEN currentPlayer
                               ELSE SwitchPlayer(currentPlayer, gameMode))
          /\ UNCHANGED <<foulNotification, ballInHand, offerFreeBall, foulDecisionNeeded>>
          /\ Effects(out.balls # bs, FALSE)
       ELSE
          /\ currentBreak' = 0
          /\ isFreeBall' = FALSE
          /\ spin' = <<0, 0>>
          /\ targetState' = SwitchTarget(bs, targetState)
          /\ currentPlayer' = SwitchPlayer(currentPlayer, gameMode)
          /\ balls' = bs
          /\ UNCHANGED <<foulNotification, scoreP1, scoreP2, ballInHand, gameState,
                         showColorSelection, offerFreeBall, foulDecisionNeeded>>
          /\ Effects(FALSE, FALSE)

\* loop frame in which the balls are found at rest after a shot
LoopShotEnd ==
    /\ PhysicsRuns
    /\ isMoving
    /\ shotPots' = {}
    /\ struckTouching' = null
    /\ UNCHANGED <<gameMode, difficulty, stats, isShooting>>
    /\ UNCHANGED <<turnTimer, engineVars, cuePlacedAt, fnVars, hookVars>>
    /\ handleTurnEnd(SweepBalls(balls), SweepStatus(balls, turnStatus))

\* The steps of a local frame.  PlayAgain is left out: the frame-over modal
\* needs every object ball potted, and only the active balls are ever pocketed.
Next ==
    \/ GoToMenu
    \/ \E m \in GameModes : SetGameMode(m)
    \/ \E d \in Difficulties : SetDifficulty(d)
    \/ StartMatch
    \/ \E s \in SpinVals : SetSpin(s)
    \/ HumanCommitShot
    \/ LoopStroke
    \/ AIShot
    \/ NominateButton
    \/ NominateClick
    \/ AINominate
    \/ HumanFoulDecision
    \/ AIFoulDecision
    \/ HumanPlaceBall
    \/ AIPlaceBall
    \/ PhysicsCollision
    \/ PhysicsPot
    \/ LoopShotEnd

Spec == Init /\ [][Next]_vars

TypeOK ==
    /\ gameState \in GameStates
    /\ gameMode \in GameModes \cup OnlineModes
    /\ cuePlacedAt \in {NoPos, AIPlacePoint} \cup ClickPoints
    /\ turnTimer \in Nat
    /\ stepDt \in Nat
    /\ difficulty \in Difficulties
    /\ currentPlayer \in Players
    /\ balls \in [BallIds -> [potted : BOOLEAN, inPocket : BOOLEAN]]
    /\ targetState \in TargetStates
    /\ touchingBall \in BallTypes \cup {null}
    /\ turnStatus.firstHitType \in BallTypes \cup {null}
    /\ turnStatus.pottedBall \in BallIds \cup {NoBall}
    /\ scoreP1 \in Nat /\ scoreP2 \in Nat /\ currentBreak \in Nat

(* ---------------------------------------------------------------- *)
(* Properties of the end-of-shot resolution                          *)
(* ---------------------------------------------------------------- *)
\* the step in which the loop resolves a shot (handleTurnEnd runs)
ShotResolved == isMoving /\ ~isMoving'
\* ... and resolves it as a foul
FoulResolved == ShotResolved /\ foulNotification'.active
\* the step in which a shot is struck (takeShot runs)
ShotStruck == ~isMoving /\ isMoving'
\* balls pocketed during the shot that is being resolved
PottedInShot == shotPots \cup Stranded(balls)

\* a first contact the rules allow
LegalContact(type, free, target) ==
    /\ type \notin {null, "CUE"}
    /\ free \/ (target = "RED" /\ type = "RED")
            \/ (target = "COLOR" /\ type \in ColourTypes)
            \/ (target \in ColourTypes /\ type = target)

\* the rank of the reason a foul message states: 1 push shot, 2 cue ball
\* potted, 3 no ball contacted, 4 illegal first contact, 5 illegal pot
ReasonOf(msg) ==
    CASE msg = "Push Shot (Hit into touching ball)" -> 1
      [] msg = "Cue ball potted" -> 2
      [] msg = "Missed all balls" -> 3
      [] msg \in {"Hit Color first", "Hit Red first"}
                 \cup {"Hit wrong ball (Hit " \o t \o ")" : t \in BallTypes} -> 4
      [] msg \in {"Potted wrong color"}
                 \cup {"Potted " \o t : t \in BallTypes} -> 5
      [] OTHER -> 0

\* the reasons that apply to the shot being resolved, by rank
ReasonsOfShot ==
    {r \in 1..5 :
        \/ r = 1 /\ turnStatus'.pushShot
        \/ r = 2 /\ CueId \in PottedInShot
        \/ r = 3 /\ turnStatus'.firstHitType = null
        \/ r = 4 /\ turnStatus'.firstHitType # null
                 /\ ~LegalContact(turnStatus'.firstHitType, isFreeBall, targetState)
        \/ r = 5 /\ turnStatus'.pottedBall # NoBall
                 /\ ~LegalContact(BallType(turnStatus'.pottedBall), isFreeBall, targetState)}

\* C1: when a shot is resolved, a foul is reported exactly when one of the
\* five reasons applies (push shot, cue ball potted, no ball contacted,
\* illegal first contact, illegal pot of the recorded ball), the single
\* message reported states the first of them in that order.
C1_FirstReasonWins ==
    [][ShotResolved =>
          IF ReasonsOfShot = {} THEN ~foulNotification'.active
          ELSE /\ foulNotification'.active
               /\ ReasonOf(foulNotification'.message) \in ReasonsOfShot
               /\ \A r \in ReasonsOfShot : ReasonOf(foulNotification'.message) <= r]_vars

\* C1 witness: a push shot that also pocketed the cue ball has been
\* resolved and is reported as a push shot
C1_Witness ==
    /\ foulDecisionNeeded
    /\ turnStatus.pushShot
    /\ ballInHand
    /\ foulNotification.active
    /\ foulNotification.message = "Push Shot (Hit into touching ball)"

\* C2: when a shot is resolved and the first contact was not a legal one
\* (no contact at all, or a ball that is not on), a foul is reported and its
\* penalty is at least 4, whatever was potted, struck or touching.
C2_NoLegalContactIsFoul ==
    [][(ShotResolved
         /\ ~LegalContact(turnStatus'.firstHitType, isFreeBall, targetState))
        => (foulNotification'.active /\ foulNotification'.points >= 4)]_vars

\* C2 witness: a shot that contacted no ball has been resolved as the foul
\* "Missed all balls" worth 4 to the opponent of Player 1
C2_Witness ==
    /\ foulDecisionNeeded
    /\ turnStatus.firstHitType = null
    /\ ~turnStatus.pushShot /\ ~turnStatus.foul
    /\ foulNotification.active
    /\ foulNotification.message = "Missed all balls"
    /\ foulNotification.points = 4
    /\ scoreP2 = 4

\* C3: when a shot is resolved as a foul, the opponent's score grows by
\* exactly the penalty, the offender's score is unchanged, the opponent is
\* at the table with break 0 and spin (0,0), and the foul decision is pending.
C3_FoulEffects ==
    [][FoulResolved =>
          LET pen == foulNotification'.points IN
          /\ IF currentPlayer = "Player 1"
             THEN scoreP2' = scoreP2 + pen /\ scoreP1' = scoreP1
             ELSE scoreP1' = scoreP1 + pen /\ scoreP2' = scoreP2
          /\ currentPlayer' # currentPlayer
          /\ (currentPlayer = "Player 1") # (currentPlayer' = "Player 1")
          /\ currentBreak' = 0
          /\ spin' = <<0, 0>>
          /\ foulDecisionNeeded']_vars

\* C3 witness: the AI fouled with a ball potted in the shot; Player 1 got
\* the penalty, the AI nothing, and Player 1 faces the foul decision
C3_Witness ==
    /\ foulDecisionNeeded
    /\ foulNotification.active
    /\ turnStatus.potted
    /\ currentPlayer = "Player 1"
    /\ gameMode = "SINGLE_PLAYER"
    /\ stats.p2 > 0
    /\ scoreP1 = foulNotification.points
    /\ scoreP2 = 0
    /\ currentBreak = 0
    /\ spin = <<0, 0>>

\* the value of the ball involved in the foul that is being resolved
InvolvedValue ==
    LET r == ReasonOf(foulNotification'.message) IN
    IF r = 1 THEN (IF struckTouching # null THEN getBallValue(struckTouching) ELSE 4)
    ELSE IF r = 2 \/ r = 4
         THEN (IF turnStatus'.firstHitType # null
               THEN getBallValue(turnStatus'.firstHitType) ELSE 4)
    ELSE IF r = 5 THEN BallValue(turnStatus'.pottedBall)
    ELSE 4

\* C4: every foul penalty lies between 4 and 7 and is the maximum of 4, the
\* value of the target when it is one specific colour, and the value of the
\* ball involved (first hit, illegally potted, or the touching ball of a
\* push shot).
C4_PenaltyIsMax ==
    [][FoulResolved =>
          /\ foulNotification'.points \in 4..7
          /\ foulNotification'.points =
                Max(4, Max(IF targetState \in ColourTypes
                           THEN getBallValue(targetState) ELSE 4,
                           InvolvedValue))]_vars

\* the striker's and the opponent's score
ScoreOf(p, s1, s2) == IF p = "Player 1" THEN s1 ELSE s2
ScoreAgainst(p, s1, s2) == IF p = "Player 1" THEN s2 ELSE s1

\* C5: when a shot is resolved without a foul and a ball was potted, the
\* striker's score and the break grow by the value of the potted ball (by 1
\* for a colour potted as a free ball), the opponent's score is unchanged and
\* the striker stays; after a red the target is COLOR and a nomination is asked.
C5_LegalPotScores ==
    [][(ShotResolved /\ ~foulNotification'.active
         /\ turnStatus'.potted /\ turnStatus'.pottedBall # NoBall)
        => LET b == turnStatus'.pottedBall
               v == IF isFreeBall /\ BallType(b) \in ColourTypes
                    THEN 1 ELSE getBallValue(BallType(b))
           IN /\ ScoreOf(currentPlayer, scoreP1', scoreP2')
                   = ScoreOf(currentPlayer, scoreP1, scoreP2) + v
              /\ ScoreAgainst(currentPlayer, scoreP1', scoreP2')
                   = ScoreAgainst(currentPlayer, scoreP1, scoreP2)
              /\ currentBreak' = currentBreak + v
              /\ currentPlayer' = currentPlayer
              /\ (BallType(b) = "RED"
                    => targetState' = "COLOR" /\ showColorSelection')]_vars

\* C5 witness: Player 1 potted a red with the first shot of the frame:
\* score 1, break 1, target COLOR, nomination asked, still at the table
C5_Witness ==
    /\ gameState = "PLAYING" /\ ~isMoving
    /\ turnStatus.potted /\ turnStatus.pottedBall \in RedIds
    /\ ~foulNotification.active
    /\ scoreP1 = 1 /\ scoreP2 = 0 /\ currentBreak = 1
    /\ currentPlayer = "Player 1"
    /\ targetState = "COLOR" /\ showColorSelection

\* C6: when a shot is resolved without a foul in which the nominated colour
\* was potted (no free ball) while a red remains on the table, the target
\* becomes RED, the colour is back on the table and the striker continues.
C6_ColourThenRed ==
    [][(ShotResolved /\ ~foulNotification'.active /\ ~isFreeBall
         /\ targetState \in ColourTypes
         /\ turnStatus'.potted /\ turnStatus'.pottedBall # NoBall
         /\ BallType(turnStatus'.pottedBall) = targetState
         /\ RedsOnTable(balls') # {})
        => /\ targetState' = "RED"
           /\ ~balls'[turnStatus'.pottedBall].potted
           /\ ~balls'[turnStatus'.pottedBall].inPocket
           /\ currentPlayer' = currentPlayer]_vars

\* C6 witness: from the full rack Player 1 potted a red, nominated blue and
\* potted it: break 6, blue back on the table, a red left, target RED again
C6_Witness ==
    /\ gameState = "PLAYING" /\ ~isMoving
    /\ turnStatus.potted /\ BallType(turnStatus.pottedBall) = "BLUE"
    /\ ~foulNotification.active
    /\ scoreP1 = 6 /\ currentBreak = 6
    /\ currentPlayer = "Player 1"
    /\ RedsOnTable(balls) # {}
    /\ ~balls[4].potted
    /\ targetState = "RED"

\* C7: a colour that is potted without a foul and stays off the table
\* leaves no colour of lower value on the table (the colours go in the
\* order yellow, green, brown, blue, pink, black).
C7_AscendingClearance ==
    [][(ShotResolved /\ ~foulNotification'.active
         /\ turnStatus'.potted /\ turnStatus'.pottedBall \in ColourIds
         /\ balls'[turnStatus'.pottedBall].potted)
        => \A l \in ColourIds :
              BallValue(l) < BallValue(turnStatus'.pottedBall) => balls'[l].potted]_vars

\* C8: with no red on the table and the target black, a shot resolved
\* without a foul in which the black was potted ends the frame.
C8_BlackEndsFrame ==
    [][(ShotResolved /\ ~foulNotification'.active
         /\ RedsOnTable(balls') = {} /\ targetState = "BLACK"
         /\ turnStatus'.potted /\ turnStatus'.pottedBall # NoBall
         /\ BallType(turnStatus'.pottedBall) = "BLACK")
        => gameState' = "GAME_OVER"]_vars

\* C9: during a frame the potted flag of a red, once set, stays set.
C9_RedsStayPotted ==
    [][(gameState = "PLAYING" /\ gameState' = "PLAYING")
        => \A r \in RedIds : balls[r].potted => balls'[r].potted]_vars

\* C10: whenever a shot is struck while a red is on the table, none of the
\* six colours is potted.
C10_ColoursUpAtShot ==
    [][(ShotStruck /\ RedsOnTable(balls) # {})
        => \A c \in ColourIds : ~balls[c].potted]_vars

\* C11: a shot struck into the ball the cue ball is touching (dot product
\* above 0.05) is resolved as the foul "Push Shot", and the penalty is the
\* maximum of 4, the target value and the value of that touching ball.
C11_PushShotFoul ==
    [][(ShotResolved /\ struckTouching # null /\ turnStatus'.pushShot)
        => /\ foulNotification'.active
           /\ foulNotification'.message = "Push Shot (Hit into touching ball)"
           /\ foulNotification'.points =
                 Max(4, Max(IF targetState \in ColourTypes
                            THEN getBallValue(targetState) ELSE 4,
                            getBallValue(struckTouching)))]_vars

\* C12: when a shot is resolved with no ball pocketed and no foul, both
\* scores are unchanged, the other player is at the table, the break is 0,
\* the spin (0,0), the free ball cleared, no foul decision is requested, and
\* the target is RED while a red is on the table, else the lowest colour on it.
C12_NoPotSwitchesTurn ==
    [][(ShotResolved /\ ~foulNotification'.active /\ PottedInShot = {})
        => /\ scoreP1' = scoreP1 /\ scoreP2' = scoreP2
           /\ (currentPlayer = "Player 1") # (currentPlayer' = "Player 1")
           /\ currentBreak' = 0
           /\ spin' = <<0, 0>>
           /\ ~isFreeBall'
           /\ ~foulDecisionNeeded'
           /\ targetState' =
                 IF \E r \in RedIds : ~balls'[r].potted THEN "RED"
                 ELSE BallType(CHOOSE c \in ColourIds :
                         /\ ~balls'[c].potted
                         /\ \A d \in ColourIds : ~balls'[d].potted => c <= d)]_vars

\* C12 witness: Player 1 hit a red with the first shot and potted nothing;
\* the AI is at the table, nothing scored, target RED
C12_Witness ==
    /\ gameState = "PLAYING" /\ ~isMoving
    /\ gameMode = "SINGLE_PLAYER"
    /\ stats = [p1 |-> 1, p2 |-> 0]
    /\ turnStatus.firstHitType = "RED" /\ ~turnStatus.potted /\ ~turnStatus.foul
    /\ ~foulNotification.active /\ ~foulDecisionNeeded
    /\ scoreP1 = 0 /\ scoreP2 = 0 /\ currentBreak = 0
    /\ currentPlayer = "AI"
    /\ targetState = "RED" /\ ~isFreeBall

(* ---------------------------------------------------------------- *)
(* Online play: the host                                             *)
(* ---------------------------------------------------------------- *)
\* initializePeer is memoised with an empty dependency list, so the data
\* handler it installs (and handleColorSelect, handleFoulDecision and
\* switchTurn as that handler calls them) reads the state of the render
\* that created it: the initial values of the useState declarations
FirstRenderPlayer == "Player 1"
FirstRenderGameMode == "SINGLE_PLAYER"
FirstRenderIsMoving == FALSE
FirstRenderIsShooting == FALSE

\* "Host" button of the menu, then the peer's 'open' event
HostPeerOpen ==
    /\ gameState = "MENU"
    /\ gameMode # "ONLINE_HOST"
    /\ gameMode' = "ONLINE_HOST"
    /\ UNCHANGED <<gameState, difficulty, currentPlayer, balls, ballsMoving,
                   scoreP1, scoreP2, currentBreak, stats, targetState, spin,
                   showColorSelection, foulDecisionNeeded, offerFreeBall,
                   isFreeBall, ballInHand, isMoving, isShooting, turnStatus,
                   foulNotification, shotPots, struckTouching>>
    /\ UNCHANGED <<turnTimer, engineVars, cuePlacedAt, fnVars, hookVars>>
    /\ Effects(FALSE, FALSE)

\* the peer's 'connection' event on the host: the frame starts as it stands
HostConnection ==
    /\ gameMode = "ONLINE_HOST"
    /\ gameState = "MENU"
    /\ gameState' = "PLAYING"
    /\ UNCHANGED <<gameMode, difficulty, currentPlayer, balls, ballsMoving,
                   scoreP1, scoreP2, currentBreak, stats, targetState, spin,
                   showColorSelection, foulDecisionNeeded, offerFreeBall,
                   isFreeBall, ballInHand, isMoving, isShooting, turnStatus,
                   foulNotification, shotPots, struckTouching>>
    /\ UNCHANGED <<turnTimer, engineVars, cuePlacedAt, fnVars, hookVars>>
    /\ Effects(FALSE, balls = setupBalls)

\* data handler, host side, INPUT_AIM
RecvAim(s) ==
    /\ gameMode = "ONLINE_HOST" /\ gameState = "PLAYING"
    /\ IF FirstRenderPlayer = "Player 2"
       THEN /\ spin' = s
            /\ UNCHANGED <<gameState, gameMode, difficulty, currentPlayer, balls,
                           ballsMoving, scoreP1, scoreP2, currentBreak, stats,
                           targetState, showColorSelection, foulDecisionNeeded,
                           offerFreeBall, isFreeBall, ballInHand, isMoving,
                           isShooting, turnStatus, foulNotification, shotPots,
                           struckTouching>>
            /\ UNCHANGED <<turnTimer, engineVars, cuePlacedAt, fnVars, hookVars>>
            /\ Effects(FALSE, FALSE)
       ELSE UNCHANGED vars

\* data handler, host side, INPUT_SHOT
RecvShot(s) ==
    /\ gameMode = "ONLINE_HOST" /\ gameState = "PLAYING"
    /\ IF FirstRenderPlayer = "Player 2" /\ ~FirstRenderIsMoving
          /\ ~FirstRenderIsShooting
       THEN /\ spin' = s
            /\ isShooting' = TRUE
            /\ UNCHANGED <<gameState, gameMode, difficulty, currentPlayer, balls,
                           ballsMoving, scoreP1, scoreP2, currentBreak, stats,
                           targetState, showColorSelection, foulDecisionNeeded,
                           offerFreeBall, isFreeBall, ballInHand, isMoving,
                           turnStatus, foulNotification, shotPots,
                           struckTouching>>
            /\ UNCHANGED <<turnTimer, engineVars, cuePlacedAt, fnVars, hookVars>>
            /\ Effects(FALSE, FALSE)
       ELSE UNCHANGED vars

\* data handler, host side, INPUT_NOMINATE: handleColorSelect of the first
\* render (its gameMode is not ONLINE_CLIENT, so the nomination is applied)
RecvNominate(ballType) ==
    /\ gameMode = "ONLINE_HOST" /\ gameState = "PLAYING"
    /\ IF FirstRenderGameMode = "ONLINE_CLIENT"
       THEN UNCHANGED vars
       ELSE handleColorSelect(ballType)

\* data handler, host side, INPUT_DECISION: handleFoulDecision of the first
\* render; its switchTurn reads the balls through a ref and the player
\* through an updater function, but the game mode from its closure
RecvDecision(decision) ==
    /\ gameMode = "ONLINE_HOST" /\ gameState = "PLAYING"
    /\ IF FirstRenderGameMode = "ONLINE_CLIENT"
       THEN UNCHANGED vars
       ELSE /\ foulDecisionNeeded' = FALSE
            /\ foulNotification' = [foulNotification EXCEPT !.active = FALSE]
            /\ IF decision = "AGAIN"
               THEN /\ currentBreak' = 0
                    /\ isFreeBall' = FALSE
                    /\ spin' = <<0, 0>>
                    /\ targetState' = SwitchTarget(balls, targetState)
                    /\ currentPlayer' = SwitchPlayer(currentPlayer, FirstRenderGameMode)
               ELSE /\ isFreeBall' = (IF decision = "FREE" THEN TRUE ELSE isFreeBall)
                    /\ UNCHANGED <<currentBreak, spin, targetState, currentPlayer>>
            /\ UNCHANGED <<gameState, gameMode, difficulty, balls, ballsMoving,
                           scoreP1, scoreP2, stats, showColorSelection,
                           offerFreeBall, ballInHand, isMoving, isShooting,
                           turnStatus, shotPots, struckTouching>>
            /\ UNCHANGED <<turnTimer, engineVars, cuePlacedAt, fnVars, hookVars>>
            /\ Effects(FALSE, FALSE)

\* the host's own stroke, and the AI's once the turn has gone to it
HostCommitShot == ShotsPlayed < MaxHostShots /\ HumanCommitShot
HostAIShot == ShotsPlayed < MaxHostShots /\ AIShot

\* a frame played on the host: the local handlers, the loop and the four
\* kinds of message the client can send, arriving at any moment.  The AI
\* foul decision is left out: after a foul the turn never goes to the AI
\* in this mode, so its timer is never armed.
NextHost ==
    \/ GoToMenu
    \/ HostPeerOpen
    \/ HostConnection
    \/ \E s \in SpinVals : SetSpin(s)
    \/ HostCommitShot
    \/ LoopStroke
    \/ HostAIShot
    \/ NominateButton
    \/ NominateClick
    \/ AINominate
    \/ HumanFoulDecision
    \/ HumanPlaceBall
    \/ AIPlaceBall
    \/ PhysicsCollision
    \/ PhysicsPot
    \/ LoopShotEnd
    \/ \E s \in SpinVals : RecvAim(s)
    \/ \E s \in SpinVals : RecvShot(s)
    \/ \E c \in NominatedTypes : RecvNominate(c)
    \/ \E d \in Decisions : RecvDecision(d)

SpecHost == Init /\ [][NextHost]_vars

\* C13: the free ball becomes active only through a FREE decision taken
\* while a foul decision is pending and the free ball was offered (the
\* incoming striker was found snookered), whoever takes the decision.
C13_FreeBallOnlyWhenOffered ==
    [][(~isFreeBall /\ isFreeBall') => (foulDecisionNeeded /\ offerFreeBall)]_vars

(* ---------------------------------------------------------------- *)
(* The physics engine: updatePhysics on the one-rail table           *)
(* ---------------------------------------------------------------- *)
SUB_STEPS == 2
Abs(x) == IF x < 0 THEN -x ELSE x
Sign(x) == IF x > 0 THEN 1 ELSE IF x < 0 THEN -1 ELSE 0

\* activeBalls = balls.filter(b => !b.potted), taken once per call
ActiveBalls(bs) == {b \in PhysIds : ~bs[b].potted}

\* inPocketZone: within 1.1 pocket radii of the pocket
inPocketZone(pos) == Abs(pos - PocketPos) < 2

\* 1. integration: the active balls with a velocity move
Integrate(bs, active) ==
    [b \in PhysIds |->
        IF b \in active /\ bs[b].vel # 0
        THEN [bs[b] EXCEPT !.pos = @ + bs[b].vel] ELSE bs[b]]

\* 2. pocket detection: the balls this sub-step captures (mutant: the
\* potted flag is not looked at)
CapturedIgnoringFlag(bs, active) ==
    {b \in active : bs[b].pos = PocketPos}

Captured(bs, active) ==
    {b \in active : ~bs[b].potted /\ bs[b].pos = PocketPos}

\* the ids of a set in array order
RECURSIVE InOrder(_)
InOrder(S) ==
    IF S = {} THEN <<>>
    ELSE LET m == CHOOSE x \in S : \A y \in S : x <= y
         IN <<m>> \o InOrder(S \ {m})

PocketDetection(bs, active) ==
    [b \in PhysIds |->
        IF b \in Captured(bs, active)
        THEN [bs[b] EXCEPT !.potted = TRUE, !.vel = 0] ELSE bs[b]]

\* 3. wall collisions of the active balls not potted and outside the pocket zone
WallCollisions(bs, active) ==
    [b \in PhysIds |->
        IF b \in active /\ ~bs[b].potted /\ ~inPocketZone(bs[b].pos)
        THEN IF bs[b].pos < 0
             THEN [bs[b] EXCEPT !.pos = 0, !.vel = Abs(bs[b].vel)]
             ELSE IF bs[b].pos > TableLen
                  THEN [bs[b] EXCEPT !.pos = TableLen, !.vel = -Abs(bs[b].vel)]
                  ELSE bs[b]
        ELSE bs[b]]

\* 4. ball-ball collisions: the pairs i < j of currentActive in loop order
PairsInOrder(S) ==
    LET ids == InOrder(S)
        n == Len(ids)
        P == {<<i, j>> \in (1..n) \X (1..n) : i < j}
        RECURSIVE Ordered(_)
        Ordered(Q) ==
            IF Q = {} THEN <<>>
            ELSE LET q == CHOOSE x \in Q : \A y \in Q :
                              x[1] < y[1] \/ (x[1] = y[1] /\ x[2] <= y[2])
                 IN <<<<ids[q[1]], ids[q[2]]>>>> \o Ordered(Q \ {q})
    IN Ordered(P)

\* one pair: overlap test, collision callback, exchange of the impulse
\* (equal masses; restitution and spin leave who takes part unchanged)
CollidePair(st, b1, b2) ==
    LET bs == st.balls
        dist == Abs(bs[b1].pos - bs[b2].pos)
        n == Sign(bs[b1].pos - bs[b2].pos)
        velAlongNormal == (bs[b1].vel - bs[b2].vel) * n
    IN IF dist < 2
       THEN LET called == IF velAlongNormal <= 0
                          THEN st.colls \cup {<<b1, b2>>} ELSE st.colls
            IN IF velAlongNormal > 0
               THEN [st EXCEPT !.colls = called]
               ELSE [st EXCEPT !.colls = called,
                               !.balls = [bs EXCEPT
                                   ![b1] = [@ EXCEPT !.vel = bs[b1].vel - n * velAlongNormal],
                                   ![b2] = [@ EXCEPT !.vel = bs[b2].vel + n * velAlongNormal]]]
       ELSE st

\* the pairs are handled one after the other, each on the result of the last
RECURSIVE CollideAll(_, _)
CollideAll(st, pairs) ==
    IF pairs = <<>> THEN st
    ELSE CHOOSE r \in {CollideAll(s, Tail(pairs)) :
                          s \in {CollidePair(st, Head(pairs)[1], Head(pairs)[2])}} : TRUE

\* one sub-step of the call; st carries the balls and the callbacks made
AfterWalls(st, moved, active) ==
    LET caught == InOrder(Captured(moved, active))
        walled == WallCollisions(PocketDetection(moved, active), active)
    IN [balls |-> walled, pots |-> st.pots \o caught, colls |-> st.colls]

SubStep(st, active) ==
    CHOOSE r \in {CollideAll(w, PairsInOrder({b \in active : ~w.balls[b].potted})) :
                    w \in {AfterWalls(st, m, active) :
                              m \in {Integrate(st.balls, active)}}} : TRUE

RECURSIVE SubSteps(_, _, _)
SubSteps(st, active, k) ==
    IF k = 0 THEN st
    ELSE CHOOSE r \in {SubSteps(s, active, k - 1) : s \in {SubStep(st, active)}} : TRUE

\* friction after the sub-steps: a ball on the table keeps rolling or comes
\* to rest (stops: the balls whose speed falls under the stop threshold)
ApplyFriction(bs, stops) ==
    [b \in PhysIds |->
        IF ~bs[b].potted /\ b \in stops THEN [bs[b] EXCEPT !.vel = 0] ELSE bs[b]]

updatePhysics(bs, stops) ==
    CHOOSE r \in {[st EXCEPT !.balls = ApplyFriction(st.balls, stops)] :
                    st \in {SubSteps([balls |-> bs, pots |-> <<>>, colls |-> {}],
                                     ActiveBalls(bs), SUB_STEPS)}} : TRUE

gameVars == <<gameState, gameMode, difficulty, currentPlayer, balls, ballsMoving,
              scoreP1, scoreP2, currentBreak, stats, targetState, spin,
              showColorSelection, foulDecisionNeeded, offerFreeBall, isFreeBall,
              ballInHand, isMoving, isShooting, touchingBall, aiTouching,
              turnStatus, foulNotification, shotPots, struckTouching,
              cuePlacedAt>>

\* any table the engine can be handed: a potted ball has the zero velocity
\* the capture gave it; a ball lying in the pocket with its flag cleared is
\* an object ball that respawnBall left there, at rest
InitPhysics ==
    /\ InitGame
    /\ FnIdle
    /\ pballs \in {f \in [PhysIds -> [pos : PhysCells, vel : PhysVels, potted : BOOLEAN]] :
                      \A b \in PhysIds :
                         /\ f[b].potted => f[b].vel = 0
                         /\ (~f[b].potted /\ f[b].pos = PocketPos)
                               => (f[b].vel = 0 /\ b # 0)}

\* one call of updatePhysics, with onPot and onCollision recording their calls
EngineStep ==
    /\ \E stops \in SUBSET PhysIds :
          LET r == updatePhysics(pballs, stops)
          IN /\ pballs' = r.balls
             /\ potLog' = r.pots
             /\ collLog' = r.colls
    /\ UNCHANGED <<gameVars, turnTimer, stepDt, fnVars, hookVars>>

\* takeShot: the cue ball (id 0) is given its velocity
Strike(v) ==
    /\ pballs' = [pballs EXCEPT ![0] = [@ EXCEPT !.vel = v]]
    /\ potLog' = <<>>
    /\ collLog' = {}
    /\ UNCHANGED <<gameVars, turnTimer, stepDt, fnVars, hookVars>>

\* respawnBall on the rail: ball 1 is a colour with its spot at SpotCell,
\* the other balls have no spot and stay where they lie
SpotCell == 3
respawnOnRail(bs, b) ==
    LET cleared == [bs EXCEPT ![b] = [@ EXCEPT !.potted = FALSE, !.vel = 0]]
        isOccupied(pos) == \E o \in PhysIds :
                              ~cleared[o].potted /\ o # b /\ Abs(cleared[o].pos - pos) < 2
    IN IF b # 1 THEN cleared
       ELSE IF ~isOccupied(SpotCell)
            THEN [cleared EXCEPT ![b] = [@ EXCEPT !.pos = SpotCell]]
            ELSE [cleared EXCEPT ![b] = [@ EXCEPT !.pos = TableLen]]

Respawn(b) ==
    /\ pballs[b].potted
    /\ pballs' = respawnOnRail(pballs, b)
    /\ potLog' = <<>>
    /\ collLog' = {}
    /\ UNCHANGED <<gameVars, turnTimer, stepDt, fnVars, hookVars>>

NextPhysics ==
    \/ EngineStep
    \/ \E v \in PhysVels \ {0} : Strike(v)
    \/ \E b \in PhysIds : Respawn(b)

SpecPhysics == InitPhysics /\ [][NextPhysics]_vars

\* number of times b was handed to the pot callback
PotCalls(log, b) == Cardinality({i \in 1..Len(log) : log[i] = b})

\* C14: in every physics step each ball captured by a pocket is handed to
\* the pot callback exactly once and no other ball is; a ball already marked
\* potted keeps its position and velocity, is in no collision callback and
\* is not captured again.
C14_PottedBallsExcluded ==
    [][EngineStep =>
        \A b \in PhysIds :
            /\ PotCalls(potLog', b) =
                  (IF ~pballs[b].potted /\ pballs'[b].potted THEN 1 ELSE 0)
            /\ pballs[b].potted =>
                  /\ pballs'[b] = pballs[b]
                  /\ \A c \in collLog' : c[1] # b /\ c[2] # b]_vars

\* C14 witness: a step has captured a ball while another ball, potted
\* before the step, lay in the pocket it fell into
C14_Witness ==
    /\ Len(potLog) = 1
    /\ \E b \in PhysIds : b # potLog[1] /\ pballs[b].potted
                          /\ pballs[b].pos = PocketPos
    /\ collLog # {}

(* ---------------------------------------------------------------- *)
(* The game loop with its clock                                      *)
(* ---------------------------------------------------------------- *)
\* time in units of 50 ms: the cap on dt (0.1 s), the safe-stop limit
\* (20.0 s) and the intervals between two animation frames
DtCap == 2
TimerLimit == 400
MaxFrameGap == 3
FrameGaps == 1..MaxFrameGap

\* "SAFE STOP FAILSAFE": the balls have been moving for more than the limit
\* (mutant: the test is never true)
SafeStopNever(timer) == FALSE

SafeStop(timer) == timer > TimerLimit

\* the loop's first test: the client branch steps no physics and resolves
\* no shot (mutant: the client takes the host's branch)
ClientSkipsPhysicsNever(mode) == FALSE

ClientSkipsPhysics(mode) == mode = "ONLINE_CLIENT"

\* one animation frame; off the client it reaches updatePhysics: dt is the time since the
\* last frame, capped; the timer of a shot in motion advances (it is kept
\* at the first value past the limit, where the safeguard fires each frame);
\* the balls roll on or are found at rest, and a shot whose balls are at
\* rest is resolved
LoopFrame ==
    IF ClientSkipsPhysics(gameMode) THEN UNCHANGED vars
    ELSE
    /\ PhysicsRuns
    /\ \E gap \in FrameGaps :
          LET dt == Min(gap, DtCap)
              timer == IF isMoving
                       THEN Min(turnTimer + dt, TimerLimit + DtCap)
                       ELSE turnTimer
              forced == isMoving /\ SafeStop(timer)
          IN /\ turnTimer' = timer
             /\ stepDt' = dt
             /\ \E moving \in (IF ballsMoving /\ ~forced THEN BOOLEAN ELSE {FALSE}) :
                   IF isMoving /\ ~moving
                   THEN /\ shotPots' = {}
                        /\ struckTouching' = null
                        /\ UNCHANGED <<gameMode, difficulty, stats, isShooting,
                                       cuePlacedAt, pballs, potLog, collLog, fnVars, hookVars>>
                        /\ handleTurnEnd(SweepBalls(balls), SweepStatus(balls, turnStatus))
                   ELSE /\ ballsMoving' = moving
                        /\ UNCHANGED <<gameState, gameMode, difficulty, currentPlayer,
                                       balls, scoreP1, scoreP2, currentBreak, stats,
                                       targetState, spin, showColorSelection,
                                       foulDecisionNeeded, offerFreeBall, isFreeBall,
                                       ballInHand, isMoving, isShooting, turnStatus,
                                       foulNotification, shotPots, struckTouching,
                                       cuePlacedAt, pballs, potLog, collLog, fnVars, hookVars>>
                        /\ Effects(FALSE, FALSE)

\* a single-player frame with the clock: the menu, the strokes of both
\* sides, the foul decisions and the frames of the loop
NextLoop ==
    \/ GoToMenu
    \/ StartMatch
    \/ HumanCommitShot
    \/ LoopStroke
    \/ AIShot
    \/ HumanFoulDecision
    \/ AIFoulDecision
    \/ LoopFrame

SpecLoop == Init /\ [][NextLoop]_vars

\* the loop keeps running: requestAnimationFrame calls it again and again
SpecLoopFair == SpecLoop /\ WF_vars(LoopFrame)

C16_ConstantTick ==
    [][(stepDt # 0 /\ stepDt' # 0) => (stepDt' = stepDt /\ stepDt' <= DtCap)]_vars

\* a message of the client is handled by the host
ClientIntent ==
    \/ \E s \in SpinVals : RecvAim(s)
    \/ \E s \in SpinVals : RecvShot(s)
    \/ \E c \in BallTypes : RecvNominate(c)
    \/ \E d \in Decisions : RecvDecision(d)

\* C17: on the host, an intent of the client handled while Player 2 is not
\* the striker changes neither the target, the turn, the free-ball flag nor
\* the shot in progress.
C17_IntentOnlyFromStriker ==
    [][(ClientIntent /\ currentPlayer # "Player 2")
         => UNCHANGED <<targetState, currentPlayer, isFreeBall, isShooting,
                        isMoving, foulDecisionNeeded>>]_vars

\* a colour choice or a foul decision is handled, by whichever path
ColourChoice == \E c \in BallTypes : handleColorSelect(c)
DecisionTaken == \E d \in Decisions : handleFoulDecision(d) \/ RecvDecision(d)

\* C18: a nomination is applied only while a colour selection is pending and
\* only to a colour that is on the table; a foul decision is applied only
\* while a foul decision is pending.
C18_ChoicesValidated ==
    [][/\ ColourChoice =>
            /\ showColorSelection
            /\ \E id \in ColourIds : BallType(id) = targetState' /\ ~balls[id].potted
       /\ DecisionTaken => foulDecisionNeeded]_vars

(* ---------------------------------------------------------------- *)
(* Online play: the client                                           *)
(* ---------------------------------------------------------------- *)
\* connectToPeer, the connection's 'open' event
ClientJoin ==
    /\ gameState = "MENU"
    /\ gameState' = "PLAYING"
    /\ gameMode' = "ONLINE_CLIENT"
    /\ UNCHANGED <<difficulty, currentPlayer, balls, ballsMoving,
                   scoreP1, scoreP2, currentBreak, stats, targetState, spin,
                   showColorSelection, foulDecisionNeeded, offerFreeBall,
                   isFreeBall, ballInHand, isMoving, isShooting, turnStatus,
                   foulNotification, shotPots, struckTouching>>
    /\ UNCHANGED <<turnTimer, engineVars, cuePlacedAt, fnVars, hookVars>>
    /\ Effects(FALSE, balls = setupBalls)

\* "Menu" button of the playing screen
InGameMenu ==
    /\ gameState = "PLAYING"
    /\ gameState' = "MENU"
    /\ UNCHANGED <<gameMode, difficulty, currentPlayer, balls, ballsMoving,
                   scoreP1, scoreP2, currentBreak, stats, targetState, spin,
                   showColorSelection, foulDecisionNeeded, offerFreeBall,
                   isFreeBall, ballInHand, isMoving, isShooting, turnStatus,
                   foulNotification, shotPots, struckTouching>>
    /\ UNCHANGED <<turnTimer, engineVars, cuePlacedAt, fnVars, hookVars>>
    /\ Effects(FALSE, FALSE)

\* the GAME_STATE messages the host is taken to send
SnapshotBalls ==
    {[setupBalls EXCEPT ![7] = [potted |-> TRUE, inPocket |-> TRUE]],
     [setupBalls EXCEPT ![CueId] = [potted |-> TRUE, inPocket |-> TRUE]]}
SnapshotFouls ==
    {[active |-> FALSE, message |-> "", points |-> 0],
     [active |-> TRUE, message |-> "Missed all balls", points |-> 4]}
Snapshots ==
    {d \in [balls : SnapshotBalls, moving : BOOLEAN, p1 : {0}, p2 : {4},
             target : {"COLOR"}, player : Players, spin : {<<1, -1>>},
             foul : SnapshotFouls, foulDecisionNeeded : BOOLEAN] :
        d.foul.active = d.foulDecisionNeeded}

\* data handler, client side, GAME_STATE
RecvGameState(data) ==
    /\ gameMode = "ONLINE_CLIENT"
    /\ balls' = data.balls
    /\ ballsMoving' = data.moving
    /\ scoreP1' = data.p1
    /\ scoreP2' = data.p2
    /\ targetState' = data.target
    /\ currentPlayer' = data.player
    /\ foulDecisionNeeded' = data.foulDecisionNeeded
    /\ spin' = IF data.player = "Player 1" THEN data.spin ELSE spin
    /\ foulNotification' = IF data.foul.active THEN data.foul
                           ELSE [foulNotification EXCEPT !.active = FALSE]
    /\ UNCHANGED <<gameState, gameMode, difficulty, currentBreak, stats,
                   showColorSelection, offerFreeBall, isFreeBall, ballInHand,
                   isMoving, isShooting, turnStatus, shotPots, struckTouching>>
    /\ UNCHANGED <<turnTimer, engineVars, cuePlacedAt, fnVars, hookVars>>
    /\ Effects(TRUE, FALSE)

\* the component as a client: the way into the connection, the snapshots,
\* the local input, the AI effect, the loop, and the menu of the playing
\* screen with its Start Match button
NextClient ==
    \/ GoToMenu
    \/ ClientJoin
    \/ \E data \in Snapshots : RecvGameState(data)
    \/ \E s \in SpinVals : SetSpin(s)
    \/ HumanCommitShot
    \/ HumanFoulDecision
    \/ AIShot
    \/ LoopFrame
    \/ InGameMenu
    \/ StartMatch

SpecClient == Init /\ [][NextClient]_vars

\* what the client shows of the frame
Replica == <<balls, scoreP1, scoreP2, targetState, currentPlayer>>

SnapshotApplied == \E data \in Snapshots : RecvGameState(data)

\* C19 as stated: in client mode the balls, the scores, the target and the
\* current player change only when a snapshot is applied, no physics step
\* is made and no shot is resolved.
C19_ReplicaOnlyBySnapshot ==
    [][gameMode = "ONLINE_CLIENT"
         => /\ (Replica' # Replica => SnapshotApplied)
            /\ stepDt' = stepDt
            /\ ~(isMoving /\ ~isMoving')]_vars

\* C19 amended: the same, for the steps taken while the frame is on the
\* screen (a new frame started from the menu puts up its own table).
C19_ReplicaOnlyBySnapshotInPlay ==
    [][(gameMode = "ONLINE_CLIENT" /\ gameState = "PLAYING")
         => /\ (Replica' # Replica => SnapshotApplied)
            /\ stepDt' = stepDt
            /\ ~(isMoving /\ ~isMoving')]_vars

\* C19 witness: the client shows a snapshot (a red down, 4 points to Player
\* 2) and has had local input since: its own spin and a shot of its AI effect
C19_Witness ==
    /\ gameMode = "ONLINE_CLIENT" /\ gameState = "PLAYING"
    /\ balls[7].potted /\ scoreP2 = 4 /\ currentPlayer = "AI"
    /\ isMoving /\ spin = <<1, -1>>

\* C20: with ball in hand, a click of the human striker outside the D or
\* overlapping a ball changes neither the cue ball nor the ball-in-hand
\* flag; a click inside the D overlapping no ball puts the cue ball exactly
\* there, on the table and at rest, and clears ball-in-hand.
C20_PlacementValidated ==
    [][\A click \in Clicks :
          (ballInHand /\ gameState = "PLAYING" /\ currentPlayer # "AI"
             /\ PlaceClick(click))
          => IF InsideD(click.pos) /\ ~click.overlap
             THEN /\ cuePlacedAt' = click.pos
                  /\ ~balls'[CueId].potted /\ ~balls'[CueId].inPocket
                  /\ ~ballsMoving'
                  /\ ~ballInHand'
             ELSE UNCHANGED <<cuePlacedAt, ballInHand, balls>>]_vars

\* C20, as the code has it: the click is rejected without any change when
\* it lies more than PlaceTolerance beyond the baulk line or the arc of the
\* D, or overlaps a ball; any other click places the cue ball exactly there.
C20_PlacementWithinTolerance ==
    [][\A click \in Clicks :
          (ballInHand /\ gameState = "PLAYING" /\ currentPlayer # "AI"
             /\ PlaceClick(click))
          => IF ClickInRange(click.pos) /\ ~click.overlap
             THEN /\ cuePlacedAt' = click.pos
                  /\ ~balls'[CueId].potted /\ ~balls'[CueId].inPocket
                  /\ ~ballsMoving'
                  /\ ~ballInHand'
             ELSE UNCHANGED <<cuePlacedAt, ballInHand, balls>>]_vars

C20_Witness ==
    /\ cuePlacedAt \in ClickPoints
    /\ ~ballInHand
    /\ ~balls[CueId].potted

(* ---------------------------------------------------------------- *)
(* checkIsSnookered on a table with positions                        *)
(* ---------------------------------------------------------------- *)

\* lengths are in twentieths of the ball radius, so that the 1.95 radii of
\* canSeeBall are the whole number 39
Radius == 20
SightGap == 39

vecSub(a, b) == <<a[1] - b[1], a[2] - b[2]>>
vecDot(a, b) == a[1] * b[1] + a[2] * b[2]

\* the test on d (= dn / dist) and on the distance from the closest point
\* of the ray to the ball, with both sides multiplied by dist
canSeeBallPastPotted(start, target, allBalls) ==
    LET dir == vecSub(allBalls[target].pos, start)
        distSq == vecDot(dir, dir)
    IN \A b \in DOMAIN allBalls :
          \/ b = target \/ BallType(b) = "CUE"
          \/ LET f == vecSub(allBalls[b].pos, start)
                 dn == vecDot(f, dir)
             IN \/ dn < 0 \/ dn > distSq
                \/ ~(vecDot(f, f) * distSq - dn * dn < SightGap * SightGap * distSq)

canSeeBall(start, target, allBalls) ==
    LET dir == vecSub(allBalls[target].pos, start)
        distSq == vecDot(dir, dir)
    IN \A b \in DOMAIN allBalls :
          \/ b = target \/ BallType(b) = "CUE" \/ allBalls[b].potted
          \/ LET f == vecSub(allBalls[b].pos, start)
                 dn == vecDot(f, dir)
             IN \/ dn < 0 \/ dn > distSq
                \/ ~(vecDot(f, f) * distSq - dn * dn < SightGap * SightGap * distSq)

checkIsSnookered(bs, target) ==
    LET onTable == {b \in DOMAIN bs : ~bs[b].potted}
        legalTargets ==
            IF target = "RED" THEN {b \in onTable : BallType(b) = "RED"}
            ELSE IF target = "COLOR"
                 THEN {b \in onTable : BallType(b) \notin {"RED", "CUE"}}
            ELSE {b \in onTable : BallType(b) = target}
    IN IF bs[CueId].potted THEN FALSE
       ELSE IF legalTargets = {} THEN FALSE
       ELSE \A t \in legalTargets : ~canSeeBall(bs[CueId].pos, t, bs)

\* tables for the check: the cue ball, the blue and two reds on a few
\* points, balls on the table never overlapping
SightIds == {CueId, 4, 7, 8}
SightPoints == {<<0, 0>>, <<100, 0>>, <<0, 100>>, <<50, 38>>, <<50, 39>>,
                <<-50, 0>>, <<145, 0>>}
SightTargets == {"RED", "COLOR", "BLUE", "BLACK"}
Apart(p, q) == vecDot(vecSub(p, q), vecSub(p, q)) >= 4 * Radius * Radius

InitSight ==
    /\ InitGame
    /\ pballs = restingBalls
    /\ layout \in {l \in [SightIds -> [pos : SightPoints, potted : BOOLEAN]] :
                     \A a, b \in SightIds :
                        (a # b /\ ~l[a].potted /\ ~l[b].potted)
                           => Apart(l[a].pos, l[b].pos)}
    /\ lookTarget \in SightTargets
    /\ isSnookered = <<>>
    /\ aiShot = <<>>
    /\ kin = <<>>
    /\ fnIn = <<>>
    /\ fnOut = <<>>

\* handleTurnEnd asks whether the incoming striker is snookered; the answer
\* is kept as a one-element sequence, empty before the call
Look ==
    /\ isSnookered = <<>>
    /\ isSnookered' = <<checkIsSnookered(layout, lookTarget)>>
    /\ UNCHANGED <<gameVars, hookVars, callVars, turnTimer, engineVars, layout, lookTarget, aiShot, kin>>

NextSight == Look

SpecSight == InitSight /\ [][NextSight]_vars

\* the distance from p to the segment from a to b is below gap
NearSegment(p, a, b, gap) ==
    LET ab == vecSub(b, a)
        ap == vecSub(p, a)
        bp == vecSub(p, b)
        t == vecDot(ap, ab)
        len == vecDot(ab, ab)
    IN IF t <= 0 THEN vecDot(ap, ap) < gap * gap
       ELSE IF t >= len THEN vecDot(bp, bp) < gap * gap
       ELSE vecDot(ap, ap) * len - t * t < gap * gap * len

SightTargetSet ==
    {b \in SightIds :
        /\ ~layout[b].potted
        /\ CASE lookTarget = "RED" -> BallType(b) = "RED"
             [] lookTarget = "COLOR" -> BallType(b) \in ColourTypes
             [] OTHER -> BallType(b) = lookTarget}

Obstructed(t) ==
    \E b \in SightIds \ {CueId, t} :
        /\ ~layout[b].potted
        /\ NearSegment(layout[b].pos, layout[CueId].pos, layout[t].pos, SightGap)

AIDifficulties == {"EASY", "MEDIUM", "HARD"}
Randoms == {0, 500, 999}
PotDists == {0, 200, 520, 894}
CutAngles == {0, 650, 1300, 1400}
maxDist == 894
noPot == <<>>
BestPots == {noPot} \cup [dist : PotDists, angleDiff : CutAngles]

\* the confidence of a pot
confidence(pot) ==
    LET angleScore == Max(0, 1000 - (pot.angleDiff * 1000) \div 1300)
        distScore == Max(0, 1000 - (pot.dist * 1000) \div maxDist)
    IN (angleScore * 700) \div 1000 + (distScore * 300) \div 1000

safetyThreshold(diff) ==
    CASE diff = "EASY" -> 50
      [] diff = "MEDIUM" -> 400
      [] diff = "HARD" -> 600

powerError(diff, r) ==
    CASE diff = "EASY" -> 800 + (r * 400) \div 1000
      [] diff = "MEDIUM" -> 900 + (r * 200) \div 1000
      [] diff = "HARD" -> 980 + (r * 40) \div 1000

clampPowerFromBelow(p) == Max(5000, p)

\* Math.min(100, Math.max(5, p))
clampPower(p) == Min(100000, Max(5000, p))

\* the power calculateAIShot returns for the best pot its scan found (or
\* none), with or without a legal target, and the two random numbers drawn
calculateAIShot(bestPot, hasTarget, diff, rPower, rError) ==
    LET power ==
          IF bestPot # noPot /\ confidence(bestPot) > safetyThreshold(diff)
          THEN LET p == 35000 + (bestPot.dist * 1000) \div 8
               IN IF diff = "HARD" THEN Min(85000, p + 10000) ELSE p
          ELSE IF hasTarget
               THEN (IF diff = "HARD" THEN 45000 ELSE 30000 + rPower * 40)
               ELSE 20000
    IN clampPower((power * powerError(diff, rError)) \div 1000)

\* the AI effect asks for a shot
AICall ==
    /\ aiShot = <<>>
    /\ \E bestPot \in BestPots, hasTarget \in BOOLEAN, diff \in AIDifficulties,
          rPower \in Randoms, rError \in Randoms :
          /\ bestPot # noPot => hasTarget
          /\ aiShot' = [bestPot |-> bestPot, hasTarget |-> hasTarget,
                        difficulty |-> diff, rPower |-> rPower, rError |-> rError,
                        power |-> calculateAIShot(bestPot, hasTarget, diff,
                                                  rPower, rError)]
    /\ UNCHANGED <<gameVars, hookVars, callVars, turnTimer, engineVars, layout, lookTarget, isSnookered, kin>>

NextAI == AICall

SpecAI == Init /\ [][NextAI]_vars

\* C22: the power calculateAIShot returns lies between 5 and 100, whichever
\* branch (pot, safety, random direction) set it and whatever the random
\* numbers drawn.
C22_PowerClamped ==
    aiShot # <<>> => (aiShot.power >= 5000 /\ aiShot.power <= 100000)

\* a long pot whose power had to be cut down to 100
C22_Witness ==
    /\ aiShot # <<>>
    /\ aiShot.bestPot # noPot
    /\ confidence(aiShot.bestPot) > safetyThreshold(aiShot.difficulty)
    /\ 35000 + (aiShot.bestPot.dist * 1000) \div 8 > 100000
    /\ aiShot.power = 100000

(* ---------------------------------------------------------------- *)
(* updatePhysics: what a sub-step and the friction pass do to the    *)
(* velocities, with the spin at zero                                 *)
(* ---------------------------------------------------------------- *)

\* velocities are pairs of whole numbers over a denominator that each
\* operation states; a contact normal n is N / 5 with N of length 5
Vels2 == {-1, 0, 1} \X {-1, 0, 1}
Normals == {<<5, 0>>, <<0, 5>>, <<3, 4>>, <<-4, 3>>}
WallSides == {"none", "min", "max"}
WallHits == [x : WallSides, y : WallSides]
vecMult(v, k) == <<v[1] * k, v[2] * k>>

\* a cushion that gives the speed back with a fifth added
wallBounceLively(vel, hit) ==
    <<CASE hit.x = "min" -> Abs(vel[1]) * 6
        [] hit.x = "max" -> -Abs(vel[1]) * 6
        [] OTHER -> vel[1] * 5,
      CASE hit.y = "min" -> Abs(vel[2]) * 6
        [] hit.y = "max" -> -Abs(vel[2]) * 6
        [] OTHER -> vel[2] * 5>>

\* 3. wall collisions: five times the velocity of a ball after the clamp,
\* WALL_RESTITUTION being 4/5
wallBounce(vel, hit) ==
    <<CASE hit.x = "min" -> Abs(vel[1]) * 4
        [] hit.x = "max" -> -Abs(vel[1]) * 4
        [] OTHER -> vel[1] * 5,
      CASE hit.y = "min" -> Abs(vel[2]) * 4
        [] hit.y = "max" -> -Abs(vel[2]) * 4
        [] OTHER -> vel[2] * 5>>

\* 4. ball-ball collision of an overlapping pair with normal N / 5: 625
\* times the two velocities after it, (1 + BALL_RESTITUTION) / 2 being
\* 24/25; a pair moving apart is left alone
ballImpulse(v1, v2, N) ==
    LET velAlongNormal == vecDot(vecSub(v1, v2), N)
    IN IF velAlongNormal > 0
       THEN <<vecMult(v1, 625), vecMult(v2, 625)>>
       ELSE <<vecSub(vecMult(v1, 625), vecMult(N, 24 * velAlongNormal)),
              vecSub(vecMult(v2, 625), vecMult(N, -24 * velAlongNormal))>>

\* friction, speeds in hundredths: fifty times the velocity of a ball that
\* moves at speed along dir / 5, drop being ROLLING_RESISTANCE * timeScale
STOP_THRESHOLD == 15
Speeds == {0, 10, 15, 40, 100}
Drops == {0, 12, 72}
applyDrag(dir, speed, drop) ==
    IF speed < STOP_THRESHOLD THEN <<0, 0>>
    ELSE LET newSpeed == Max(0, speed - drop)
         IN IF newSpeed < STOP_THRESHOLD * 2
            THEN vecMult(dir, newSpeed * 9)
            ELSE vecMult(dir, newSpeed * 10)

\* one sub-step on two balls on the table: each may be at a cushion, and
\* the two may overlap along one of the normals
SubStepVelocities ==
    /\ kin = <<>>
    /\ \E v1 \in Vels2, v2 \in Vels2, hit1 \in WallHits, hit2 \in WallHits,
          overlap \in BOOLEAN, N \in Normals :
          LET w1 == wallBounce(v1, hit1)
              w2 == wallBounce(v2, hit2)
          IN /\ ~overlap => N = <<5, 0>>
             /\ kin' = [op |-> "substep", struck |-> overlap, hits |-> <<hit1, hit2>>,
                        before |-> <<v1, v2>>, den |-> 3125,
                        after |-> IF overlap THEN ballImpulse(w1, w2, N)
                                  ELSE <<vecMult(w1, 625), vecMult(w2, 625)>>]
    /\ UNCHANGED <<gameVars, hookVars, callVars, turnTimer, engineVars, layout, lookTarget,
                   isSnookered, aiShot>>

\* the friction pass on one ball on the table
FrictionPass ==
    /\ kin = <<>>
    /\ \E dir \in Normals, speed \in Speeds, drop \in Drops :
          kin' = [op |-> "friction", struck |-> FALSE, hits |-> <<>>,
                  before |-> <<vecMult(dir, speed * 10)>>, den |-> 1,
                  after |-> <<applyDrag(dir, speed, drop)>>]
    /\ UNCHANGED <<gameVars, hookVars, callVars, turnTimer, engineVars, layout, lookTarget,
                   isSnookered, aiShot>>

NextEnergy == SubStepVelocities \/ FrictionPass

SpecEnergy == Init /\ [][NextEnergy]_vars

\* the sum of the squared speeds
Energy(vs) ==
    vecDot(vs[1], vs[1]) + (IF Len(vs) > 1 THEN vecDot(vs[2], vs[2]) ELSE 0)

\* C23: with the spin at zero, the sum of the squared speeds of the balls
\* on the table after a sub-step (cushion reflection, ball-ball impulse)
\* and after the friction pass is not above what it was before.
C23_EnergyNeverGrows ==
    kin # <<>> => Energy(kin.after) <= kin.den * kin.den * Energy(kin.before)

\* two balls meet at a cushion and both still move afterwards
C23_Witness ==
    /\ kin # <<>>
    /\ kin.op = "substep" /\ kin.struck
    /\ kin.hits[1].x = "min"
    /\ kin.before[1] = <<-1, 1>> /\ kin.before[2] = <<1, 0>>
    /\ kin.after[1] # <<0, 0>> /\ kin.after[2] # <<0, 0>>
    /\ Energy(kin.after) < kin.den * kin.den * Energy(kin.before)

(* ---------------------------------------------------------------- *)
(* respawnBall on a table with positions                             *)
(* ---------------------------------------------------------------- *)

\* positions in fortieths of a pixel, which makes the overflow location
\* (730 + BALL_RADIUS * 2.1, CENTER_Y) a pair of whole numbers
Px(x, y) == <<x * 40, y * 40>>
Diameter == 740
spots ==
    <<[type |-> "BLACK", pos |-> Px(720, 200)],
      [type |-> "PINK", pos |-> Px(600, 200)],
      [type |-> "BLUE", pos |-> Px(400, 200)],
      [type |-> "BROWN", pos |-> Px(170, 200)],
      [type |-> "GREEN", pos |-> Px(170, 200 - D_RADIUS)],
      [type |-> "YELLOW", pos |-> Px(170, 200 + D_RADIUS)]>>
OverflowPos == <<29977, 8000>>

distSq(p, q) == vecDot(vecSub(p, q), vecSub(p, q))

isOccupied(bs, id, pos) ==
    \E b \in DOMAIN bs :
        ~bs[b].potted /\ b # id /\ distSq(bs[b].pos, pos) < Diameter * Diameter

\* the spot the search would end on if it ran from the far end of the list
lastFreeSpot(free) == CHOOSE i \in free : \A j \in free : j <= i

\* spots.find over the spots that are not occupied
firstFreeSpot(free) == CHOOSE i \in free : \A j \in free : i <= j

respawnBallOnSpot(bs, id) ==
    LET cleared == [bs EXCEPT ![id] = [@ EXCEPT !.potted = FALSE, !.vel = <<0, 0>>]]
        own == {i \in 1..Len(spots) : spots[i].type = BallType(id)}
        free == {i \in 1..Len(spots) : ~isOccupied(cleared, id, spots[i].pos)}
        put(pos) == [cleared EXCEPT ![id] = [@ EXCEPT !.pos = pos]]
    IN IF own = {} THEN cleared
       ELSE IF own \subseteq free THEN put(spots[CHOOSE i \in own : TRUE].pos)
       ELSE IF free # {} THEN put(spots[firstFreeSpot(free)].pos)
       ELSE put(OverflowPos)

\* tables for the check: the cue ball, the six colours and a red; a colour
\* is on its spot, away from every spot, or potted; the cue ball may lie on
\* any spot, 18 pixels to its left; the red may lie one diameter to the
\* right of the black spot or 17.5 pixels under the pink spot
SpotIds == 0..7
PocketCorner == Px(42, 42)
Away(b) == Px(100 + 40 * b, 100)
SpotOf(b) == spots[CHOOSE i \in 1..Len(spots) : spots[i].type = BallType(b)].pos
Lies(pos) == [pos |-> pos, potted |-> FALSE, vel |-> <<0, 0>>]
Places(b) ==
    {[pos |-> PocketCorner, potted |-> TRUE, vel |-> <<0, 0>>], Lies(Away(b))}
    \cup (IF b \in ColourIds THEN {Lies(SpotOf(b))}
          ELSE IF b = CueId
               THEN {Lies(vecSub(spots[i].pos, <<720, 0>>)) : i \in 1..Len(spots)}
          ELSE {Lies(vecSub(spots[1].pos, <<-Diameter, 0>>)),
                Lies(vecSub(spots[2].pos, <<0, -700>>))})

InitSpots ==
    /\ InitGame
    /\ pballs = restingBalls
    /\ layout \in {l \in {[b \in SpotIds |-> ch[b + 1]] :
                              ch \in Places(0) \X Places(1) \X Places(2) \X Places(3)
                                      \X Places(4) \X Places(5) \X Places(6)
                                      \X Places(7)} :
                     /\ \E c \in ColourIds : l[c].potted
                     /\ \A a, b \in SpotIds :
                           (a # b /\ ~l[a].potted /\ ~l[b].potted)
                              => distSq(l[a].pos, l[b].pos) >= Diameter * Diameter}
    /\ lookTarget = null
    /\ isSnookered = <<>>
    /\ aiShot = <<>>
    /\ kin = <<>>
    /\ fnIn = <<>>
    /\ fnOut = <<>>

\* handleTurnEnd respawns a potted colour
RespawnColour ==
    /\ \E c \in ColourIds :
          /\ layout[c].potted
          /\ layout' = respawnBallOnSpot(layout, c)
    /\ UNCHANGED <<gameVars, hookVars, callVars, turnTimer, engineVars, lookTarget, isSnookered,
                   aiShot, kin>>

NextSpots == RespawnColour

SpecSpots == InitSpots /\ [][NextSpots]_vars

\* the order in which the spots are tried
SpotOrder == <<"BLACK", "PINK", "BLUE", "BROWN", "GREEN", "YELLOW">>
SpotFor(type) == spots[CHOOSE i \in 1..Len(spots) : spots[i].type = type].pos
Clear(c, pos) ==
    \A b \in SpotIds \ {c} :
        layout[b].potted \/ distSq(layout[b].pos, pos) >= Diameter * Diameter

\* C24: a respawned colour goes to its own spot when no other ball on the
\* table is within two radii of it, else to the first spot in the order
\* black, pink, blue, brown, green, yellow that is clear, and to the
\* overflow location only when none of the six is; afterwards it is on the
\* table at rest and, unless at the overflow location, overlaps no ball.
C24_RespawnPlacement ==
    [][\A c \in ColourIds :
          (layout[c].potted /\ ~layout'[c].potted) =>
             LET own == SpotFor(BallType(c))
                 at == layout'[c].pos
             IN /\ layout'[c].vel = <<0, 0>>
                /\ \A b \in SpotIds \ {c} : layout'[b] = layout[b]
                /\ Clear(c, own) => at = own
                /\ ~Clear(c, own) =>
                      \A i \in 1..Len(SpotOrder) :
                         (/\ Clear(c, SpotFor(SpotOrder[i]))
                          /\ \A j \in 1..(i - 1) : ~Clear(c, SpotFor(SpotOrder[j])))
                            => at = SpotFor(SpotOrder[i])
                /\ (at = OverflowPos) <=>
                      (\A i \in 1..Len(SpotOrder) : ~Clear(c, SpotFor(SpotOrder[i])))
                /\ at # OverflowPos => Clear(c, at)]_vars

\* the blue came back on the pink spot: its own spot and the black spot
\* were taken
C24_Witness ==
    /\ ~layout[4].potted /\ layout[4].pos = SpotFor("PINK")
    /\ ~Clear(4, SpotFor("BLUE"))
    /\ ~Clear(4, SpotFor("BLACK"))
    /\ layout[5].potted

(* ---------------------------------------------------------------- *)
(* Break, multiple pots, foul decisions, free ball, turn status       *)
(* ---------------------------------------------------------------- *)

\* what a ball potted in the shot being resolved is worth to the striker
PotWorth(b) ==
    IF isFreeBall /\ BallType(b) \in ColourTypes THEN 1 ELSE BallValue(b)

RECURSIVE SumWorth(_)
SumWorth(S) ==
    IF S = {} THEN 0
    ELSE LET b == CHOOSE x \in S : TRUE IN PotWorth(b) + SumWorth(S \ {b})

\* the balls of the shot being resolved that were legal pots
LegalPotsInShot ==
    {b \in PottedInShot : LegalContact(BallType(b), isFreeBall, targetState)}

\* C25: the break is 0 right after every change of striker, and a shot
\* resolved with the striker staying at the table adds to the break the
\* values of all the balls legally potted in it (a colour potted as free
\* ball counting 1), also when more than one was potted.
C25_BreakIsSumOfPots ==
    [][/\ (currentPlayer' # currentPlayer => currentBreak' = 0)
       /\ (ShotResolved /\ currentPlayer' = currentPlayer)
             => currentBreak' = currentBreak + SumWorth(LegalPotsInShot)]_vars

\* C26: a shot in which some ball was potted that is not a legal pot for
\* the target / free-ball state is resolved as a foul, in whatever order
\* the balls of the shot went down.
C26_AnyIllegalPotIsFoul ==
    [][(ShotResolved /\ PottedInShot \ LegalPotsInShot # {})
          => foulNotification'.active]_vars

\* the player who handed the table over at the foul
Offender == SwitchPlayer(currentPlayer, gameMode)

C28_BallInHandToOpponent ==
    [][/\ (ShotResolved /\ ~ballInHand /\ ballInHand')
             => currentPlayer' = SwitchPlayer(currentPlayer, gameMode)
       /\ (ballInHand /\ ballInHand') => currentPlayer' = currentPlayer]_vars

\* C28 without the decision AGAIN: the pass-back is the only step that
\* changes the striker while ball in hand is held.
C28_BallInHandUnlessPassedBack ==
    [][/\ (ShotResolved /\ ~ballInHand /\ ballInHand')
             => currentPlayer' = SwitchPlayer(currentPlayer, gameMode)
       /\ (ballInHand /\ ballInHand' /\ ~handleFoulDecision("AGAIN"))
             => currentPlayer' = currentPlayer]_vars

\* C29: the resolution of a shot played with the free ball clears the flag
\* (foul, miss or pot); in that shot a first contact with any object ball
\* and the pot of any object ball are legal, so the shot is a foul only for
\* a push shot, a potted cue ball or no contact; and every colour potted in
\* it without a foul is worth 1 to the striker and is back on the table.
C29_FreeBallOneShot ==
    [][(isFreeBall /\ ShotResolved) =>
          /\ ~isFreeBall'
          /\ foulNotification'.active =>
                \/ turnStatus'.pushShot
                \/ turnStatus'.foul
                \/ turnStatus'.firstHitType = null
          /\ ~foulNotification'.active =>
                /\ \A b \in PottedInShot \cap ColourIds : ~balls'[b].potted
                /\ ScoreOf(currentPlayer, scoreP1', scoreP2')
                      = ScoreOf(currentPlayer, scoreP1, scoreP2)
                           + SumWorth(PottedInShot)]_vars

\* C30: the strike leaves a turn status with nothing potted, no potted
\* ball and no foul other than a push shot, and a first contact only when
\* a legal touching ball is played away from; once the first contact is
\* set nothing changes it until the shot is resolved; and a collision of
\* two object balls leaves the turn status as it is.
C30_FreshStatusAndLatch ==
    [][/\ ShotStruck =>
             LET fresh == [potted |-> FALSE, foul |-> FALSE, firstHitType |-> null,
                           pottedBall |-> NoBall, pushShot |-> FALSE]
             IN \/ turnStatus' = fresh
                \/ turnStatus' = [fresh EXCEPT !.pushShot = TRUE, !.foul = TRUE]
                \/ \E t \in BallTypes :
                      /\ LegalContact(t, isFreeBall, targetState)
                      /\ turnStatus' = [fresh EXCEPT !.firstHitType = t]
       /\ (isMoving /\ turnStatus.firstHitType # null)
             => turnStatus'.firstHitType = turnStatus.firstHitType
       /\ \A b1, b2 \in BallIds \ {CueId} :
             onCollision(turnStatus, b1, b2) = turnStatus]_vars

\* the cue ball met a red first, and later in the shot the blue went down
C30_Witness ==
    /\ isMoving
    /\ turnStatus.firstHitType = "RED"
    /\ turnStatus.potted /\ turnStatus.pottedBall = 4
    /\ struckTouching = null

(* ---------------------------------------------------------------- *)
(* Animation frames against the effects that follow a render         *)
(* ---------------------------------------------------------------- *)
\* resolutions of one shot the model follows
MaxTurnEnds == 2

\* the values the scheduled loop callback was created with: the loop and its
\* handleTurnEnd are useCallback closures, and the callback handed to
\* requestAnimationFrame is replaced only by the loop scheduling effect
CurrentClosure ==
    [currentPlayer |-> currentPlayer, targetState |-> targetState,
     isFreeBall |-> isFreeBall, paused |-> foulDecisionNeeded \/ isShooting]

\* the effects of the latest render have run
Flushed == movingRef = isMoving /\ loopClosure = CurrentClosure

\* the effects after a render: movingRef.current = isMoving, and the loop
\* of this render is scheduled in place of the old one
FlushEffects ==
    /\ ~Flushed
    /\ movingRef' = isMoving
    /\ loopClosure' = CurrentClosure
    /\ turnEnds' = IF isMoving /\ ~movingRef THEN 0 ELSE turnEnds
    /\ UNCHANGED <<gameVars, turnTimer, engineVars, fnVars, welcomeVars, rafVars>>

\* the moving flag as the frame reads it: const wasMoving = movingRef.current
wasMoving == movingRef

\* a frame of the scheduled loop finds the balls at rest: wasMoving && !moving,
\* so setIsMoving(false) and handleTurnEnd() are called
FrameShotEnd ==
    /\ Flushed
    /\ ~loopClosure.paused
    /\ wasMoving
    /\ turnEnds' = turnEnds + 1
    /\ shotPots' = {}
    /\ struckTouching' = null
    /\ UNCHANGED <<gameMode, difficulty, stats, isShooting>>
    /\ UNCHANGED <<turnTimer, engineVars, cuePlacedAt, fnVars, movingRef, loopClosure,
                   welcomeVars, rafVars>>
    /\ handleTurnEnd(SweepBalls(balls), SweepStatus(balls, turnStatus))

\* the next frame comes before the effects have run: the same callback reads
\* the same ref and the same turn status and calls handleTurnEnd again; its
\* updater functions (setScoreP1(s => s + ...), setCurrentPlayer(prev => ...))
\* and currentBreakRef apply on top of the first call's, its plain values
\* are the ones the first call has set
StaleShotEnd ==
    /\ ~Flushed
    /\ ~loopClosure.paused
    /\ wasMoving
    /\ ~ballsMoving
    /\ turnEnds < MaxTurnEnds
    /\ turnEnds' = turnEnds + 1
    /\ LET striker == loopClosure.currentPlayer
           fc == FoulCheck(turnStatus, null, loopClosure.isFreeBall,
                           loopClosure.targetState)
       IN IF fc.isFoul THEN
             /\ scoreP1' = FoulScore(scoreP1, "Player 1", striker, fc.penalty)
             /\ scoreP2' = FoulScore(scoreP2, "Player 2", striker, fc.penalty)
             /\ currentBreak' = 0
             /\ currentPlayer' = SwitchPlayer(currentPlayer, gameMode)
          ELSE IF turnStatus.potted /\ turnStatus.pottedBall # NoBall THEN
             LET points == PotPoints(turnStatus.pottedBall, loopClosure.isFreeBall)
                 out == PotOutcome(balls, turnStatus.pottedBall,
                                   loopClosure.isFreeBall, loopClosure.targetState)
             IN /\ scoreP1' = PotScore(scoreP1, "Player 1", striker, points)
                /\ scoreP2' = PotScore(scoreP2, "Player 2", striker, points)
                /\ currentBreak' = (IF out.continues THEN currentBreak + points ELSE 0)
                /\ currentPlayer' = (IF out.continues THEN currentPlayer
                                     ELSE SwitchPlayer(currentPlayer, gameMode))
          ELSE
             /\ currentBreak' = 0
             /\ currentPlayer' = SwitchPlayer(currentPlayer, gameMode)
             /\ UNCHANGED <<scoreP1, scoreP2>>
    /\ UNCHANGED <<gameState, gameMode, difficulty, balls, ballsMoving, stats,
                   targetState, spin, showColorSelection, foulDecisionNeeded,
                   offerFreeBall, isFreeBall, ballInHand, isMoving, isShooting,
                   turnStatus, foulNotification, shotPots, struckTouching>>
    /\ UNCHANGED <<turnTimer, engineVars, cuePlacedAt, fnVars, movingRef, loopClosure,
                   welcomeVars, rafVars>>
    /\ Effects(FALSE, FALSE)

\* a single-player frame: handlers and timers run on a flushed render, the
\* frames of the loop run whenever the browser calls them
NextFrames ==
    \/ Flushed /\ GoToMenu
    \/ Flushed /\ StartMatch
    \/ Flushed /\ HumanCommitShot
    \/ Flushed /\ LoopStroke
    \/ Flushed /\ AIShot
    \/ Flushed /\ HumanFoulDecision
    \/ Flushed /\ AIFoulDecision
    \/ Flushed /\ PhysicsCollision
    \/ Flushed /\ PhysicsPot
    \/ FrameShotEnd
    \/ StaleShotEnd
    \/ FlushEffects

SpecFrames == Init /\ [][NextFrames]_vars

\* C31: handleTurnEnd runs at most once for a shot: since the moving flag
\* was last raised, no second resolution has been executed, whatever the
\* order of animation frames and of the effect that refreshes movingRef.
C31_ResolvedOncePerShot == turnEnds <= 1

\* C31, the failing run: a shot resolved twice, the penalty of one foul
\* charged two times
C31_PenaltyTwice ==
    /\ turnEnds = 2
    /\ foulNotification.active
    /\ scoreP1 + scoreP2 = 2 * foulNotification.points
    /\ ShotsPlayed = 1

(* ---------------------------------------------------------------- *)
(* The shot slider of touch devices                                  *)
(* ---------------------------------------------------------------- *)
\* handleSliderStart, handleSliderMove and handleSliderEnd with a pull of
\* more than 5: the three test isInputBlocked only, and handleSliderEnd calls
\* handleMouseUp, which looks at ballInHand, showColorSelection and
\* foulDecisionNeeded before it starts the stroke
SliderCommitShot ==
    /\ MouseAllowed
    /\ gameState = "PLAYING"
    /\ ~ballInHand /\ ~showColorSelection /\ ~foulDecisionNeeded
    /\ ShotsPlayed < MaxShots
    /\ IF gameMode = "ONLINE_CLIENT"
       THEN UNCHANGED vars
       ELSE /\ isShooting' = TRUE
            /\ UNCHANGED <<gameState, gameMode, difficulty, currentPlayer, balls,
                           ballsMoving, scoreP1, scoreP2, currentBreak, stats,
                           targetState, spin, showColorSelection, foulDecisionNeeded,
                           offerFreeBall, isFreeBall, ballInHand, isMoving,
                           turnStatus, foulNotification, shotPots, struckTouching>>
            /\ UNCHANGED <<turnTimer, engineVars, cuePlacedAt, fnVars, hookVars>>
            /\ Effects(FALSE, FALSE)

\* a single-player frame on a touch device
NextSlider ==
    \/ GoToMenu
    \/ StartMatch
    \/ HumanCommitShot
    \/ SliderCommitShot
    \/ LoopStroke
    \/ AIShot
    \/ NominateButton
    \/ NominateClick
    \/ AINominate
    \/ HumanFoulDecision
    \/ AIFoulDecision
    \/ HumanPlaceBall
    \/ AIPlaceBall
    \/ PhysicsCollision
    \/ PhysicsPot
    \/ LoopShotEnd

SpecSlider == Init /\ [][NextSlider]_vars

\* C32: a step in which takeShot runs (it counts the shot in the striker's
\* statistics) starts from a state with no colour selection pending, no
\* foul decision pending, no ball in hand and no balls in motion.
C32_NoShotWhilePending ==
    [][ShotsPlayed' # ShotsPlayed =>
          /\ ~showColorSelection
          /\ ~foulDecisionNeeded
          /\ ~ballInHand
          /\ ~isMoving]_vars

(* ---------------------------------------------------------------- *)
(* Leaving a frame and starting the next                             *)
(* ---------------------------------------------------------------- *)
\* a single-player frame that can be left by the "Menu" button of the
\* playing screen and started again
NextMenu ==
    \/ GoToMenu
    \/ StartMatch
    \/ InGameMenu
    \/ HumanCommitShot
    \/ LoopStroke
    \/ AIShot
    \/ NominateButton
    \/ NominateClick
    \/ AINominate
    \/ HumanFoulDecision
    \/ AIFoulDecision
    \/ HumanPlaceBall
    \/ AIPlaceBall
    \/ PhysicsCollision
    \/ PhysicsPot
    \/ LoopShotEnd

SpecMenu == Init /\ [][NextMenu]_vars

\* C33: a step that starts a frame (the game enters PLAYING) leaves the
\* initial rule state: the balls in the initial layout, both scores and
\* the break 0, the target on RED, and no free ball, foul decision, colour
\* selection or ball in hand pending.
C33_NewFrameStartsClean ==
    [][(gameState # "PLAYING" /\ gameState' = "PLAYING") =>
          /\ balls' = setupBalls
          /\ scoreP1' = 0 /\ scoreP2' = 0 /\ currentBreak' = 0
          /\ targetState' = "RED"
          /\ ~isFreeBall' /\ ~foulDecisionNeeded'
          /\ ~showColorSelection' /\ ~ballInHand']_vars

\* C33, the part of the new frame that Start Match does set: the layout,
\* the scores and the break
C33_NewFrameResetsTable ==
    [][(gameState # "PLAYING" /\ gameState' = "PLAYING") =>
          /\ balls' = setupBalls
          /\ scoreP1' = 0 /\ scoreP2' = 0 /\ currentBreak' = 0]_vars

(* ---------------------------------------------------------------- *)
(* The welcome sequence                                              *)
(* ---------------------------------------------------------------- *)
\* the welcome effect has run for the gameState and gameMode of the latest
\* render (its dependency list is [gameState, gameMode])
WelcomeSynced == welcomeDeps = <<gameState, gameMode>>

\* "Welcome Sound Logic" effect after a render that changed a dependency:
\* the cleanup of the previous run clears its timer when that run had set
\* one, then the body blocks the input and sets a timer of one second when
\* the game is PLAYING and the welcome has not been played
WelcomeEffect ==
    /\ ~WelcomeSynced
    /\ welcomeDeps' = <<gameState, gameMode>>
    /\ IF gameState = "PLAYING" /\ ~hasPlayedWelcome /\ gameMode # "ONLINE_CLIENT"
       THEN /\ hasPlayedWelcome' = TRUE
            /\ isInputBlocked' = TRUE
            /\ welcomeTimer' = "armed"
       ELSE /\ welcomeTimer' = (IF welcomeTimer = "armed" THEN "none" ELSE welcomeTimer)
            /\ UNCHANGED <<hasPlayedWelcome, isInputBlocked>>
    /\ UNCHANGED <<gameVars, turnTimer, engineVars, fnVars, frameVars, rafVars>>

\* the timer fires and playWelcomeAudio is called: without an audio context
\* or a decoded buffer the promise resolves at once and the input is
\* unblocked, otherwise the buffer is started
WelcomeTimeout ==
    /\ WelcomeSynced
    /\ welcomeTimer = "armed"
    /\ \E hasBuffer \in BOOLEAN :
          IF hasBuffer
          THEN welcomeTimer' = "playing" /\ UNCHANGED isInputBlocked
          ELSE welcomeTimer' = "none" /\ isInputBlocked' = FALSE
    /\ UNCHANGED <<hasPlayedWelcome, welcomeDeps>>
    /\ UNCHANGED <<gameVars, turnTimer, engineVars, fnVars, frameVars, rafVars>>

\* src.onended: the promise resolves and setIsInputBlocked(false) runs
WelcomeAudioEnded ==
    /\ welcomeTimer = "playing"
    /\ welcomeTimer' = "none"
    /\ isInputBlocked' = FALSE
    /\ UNCHANGED <<hasPlayedWelcome, welcomeDeps>>
    /\ UNCHANGED <<gameVars, turnTimer, engineVars, fnVars, frameVars, rafVars>>

\* the loop's pause for the welcome: isInputBlocked && !isMoving
LoopNotBlocked == ~(isInputBlocked /\ ~isMoving)

\* a single-player frame with the welcome sequence: handlers run after the
\* effects of the latest render; pointer and AI are dead while the input
\* is blocked, and so is the loop while nothing moves
NextWelcome ==
    \/ WelcomeSynced /\ GoToMenu
    \/ WelcomeSynced /\ StartMatch
    \/ WelcomeSynced /\ InGameMenu
    \/ WelcomeSynced /\ \E m \in GameModes : SetGameMode(m)
    \/ WelcomeSynced /\ ~isInputBlocked /\ HumanCommitShot
    \/ WelcomeSynced /\ ~isInputBlocked /\ AIShot
    \/ WelcomeSynced /\ LoopNotBlocked /\ LoopStroke
    \/ WelcomeSynced /\ LoopNotBlocked /\ LoopShotEnd
    \/ WelcomeSynced /\ HumanFoulDecision
    \/ WelcomeSynced /\ AIFoulDecision
    \/ WelcomeEffect
    \/ WelcomeTimeout
    \/ WelcomeAudioEnded

SpecWelcome == Init /\ [][NextWelcome]_vars

\* effects run after every render, a timer that is not cleared fires, and
\* a started buffer plays to its end
SpecWelcomeFair ==
    /\ SpecWelcome
    /\ WF_vars(WelcomeEffect)
    /\ WF_vars(WelcomeTimeout)
    /\ WF_vars(WelcomeAudioEnded)

\* C34: whenever the input is blocked it is eventually unblocked.
C34_EventuallyUnblocked == isInputBlocked ~> ~isInputBlocked

\* C34, the case that does end: once the welcome timer has fired and the
\* buffer plays, the input is unblocked
C34_UnblockedAfterTimeout ==
    (isInputBlocked /\ welcomeTimer = "playing") ~> ~isInputBlocked

(* ---------------------------------------------------------------- *)
(* The AI puts the cue ball down                                     *)
(* ---------------------------------------------------------------- *)
\* attempts of the placement loop the model follows (the code makes 50)
PlaceAttempts == 2

\* a draw is r = sqrt(random) * D_RADIUS, below D_RADIUS, and
\* theta = random * PI + PI / 2, given by five times its cosine and sine
DrawRadii == {0, 20, 40, 55}
DrawDirs == {<<0, 5>>, <<-3, 4>>, <<-4, 3>>, <<-5, 0>>, <<-4, -3>>, <<-3, -4>>}
Draws == [r : DrawRadii, dir : DrawDirs]

\* candidate = (BAULK_X + r cos(theta), CENTER_Y + r sin(theta)), relative
\* to the centre of the D
Candidate(d) == <<(d.r * d.dir[1]) \div 5, (d.r * d.dir[2]) \div 5>>

\* vecDist(candidate, b.pos) < BALL_RADIUS * 2 for an object ball on the table
PlaceOverlap(objs, pos) ==
    \E b \in DOMAIN objs :
        ~objs[b].potted /\ 4 * distSq(pos, objs[b].pos) < 37 * 37

putDown(pos, byFallback) ==
    [pos |-> pos, potted |-> FALSE, vel |-> <<0, 0>>, ballInHand |-> FALSE,
     fallback |-> byFallback]

\* the callback of the AI ball placement timer from attempt i on
RECURSIVE aiPlaceCueBall(_, _, _)
aiPlaceCueBall(objs, draws, i) ==
    IF i > Len(draws)
    THEN putDown(AIPlacePoint, TRUE)
    ELSE LET candidate == Candidate(draws[i])
         IN IF ~PlaceOverlap(objs, candidate) /\ candidate[1] <= 0
            THEN putDown(candidate, FALSE)
            ELSE aiPlaceCueBall(objs, draws, i + 1)

\* object balls around the D when the AI has the cue ball in hand
PlaceObjIds == {3, 7, 8}
PlaceObjPoints == {<<-20, 0>>, <<-30, 10>>, <<-40, 0>>, <<0, 30>>, <<0, 0>>, <<200, 0>>}
PlaceLayouts ==
    {l \in [PlaceObjIds -> [pos : PlaceObjPoints, potted : BOOLEAN]] :
        /\ \A a, b \in PlaceObjIds :
              (a # b /\ ~l[a].potted /\ ~l[b].potted)
                 => 4 * distSq(l[a].pos, l[b].pos) >= 37 * 37
        /\ \A a \in PlaceObjIds : l[a].potted => l[a].pos = <<200, 0>>}

AIPlaceTimer ==
    /\ fnIn = <<>>
    /\ \E objs \in PlaceLayouts, draws \in [1..PlaceAttempts -> Draws] :
          /\ fnIn' = [balls |-> objs, draws |-> draws]
          /\ fnOut' = aiPlaceCueBall(objs, draws, 1)
    /\ UNCHANGED <<gameVars, hookVars, turnTimer, engineVars, layout, lookTarget,
                   isSnookered, aiShot, kin>>

NextPlace == AIPlaceTimer

SpecPlace == Init /\ [][NextPlace]_vars

\* C35: after the AI has resolved ball in hand the cue ball is on the
\* table, inside the D, at rest, within two radii of no object ball on the
\* table, and ball in hand is cleared.
C35_AIPlacementValid ==
    fnOut # <<>> =>
        /\ ~fnOut.potted
        /\ InsideD(fnOut.pos)
        /\ fnOut.vel = <<0, 0>>
        /\ ~PlaceOverlap(fnIn.balls, fnOut.pos)
        /\ ~fnOut.ballInHand

\* C35, the placements that are tested: a cue ball put down by one of the
\* random attempts is in the D and clear of every ball, and the fallback
\* point is in the D, at rest
C35_RandomPlacementValid ==
    fnOut # <<>> =>
        /\ ~fnOut.potted /\ InsideD(fnOut.pos) /\ fnOut.vel = <<0, 0>>
        /\ ~fnOut.ballInHand
        /\ ~fnOut.fallback => ~PlaceOverlap(fnIn.balls, fnOut.pos)

(* ---------------------------------------------------------------- *)
(* Positions in one sub-step of updatePhysics                        *)
(* ---------------------------------------------------------------- *)
\* lengths in fortieths of a pixel: the walls (cushionWidth and
\* width - cushionWidth), the ball radius, the pocket radius times 0.95 and
\* times 1.1, and PENETRATION_SLOP
WallMin == 1680
WallMaxX == 30320
WallMaxY == 14320
BallRadius == 370
CaptureDist == 646
ZoneDist == 748
Slop == 2

\* the six pocket centres
pockets ==
    {Px(42, 42), Px(400, 34), Px(758, 42), Px(42, 358), Px(400, 366), Px(758, 358)}

inPocketZoneXY(pos) == \E p \in pockets : distSq(pos, p) < ZoneDist * ZoneDist

\* 1. integration: each ball moves by vel * subDt
integrateXY(bs) ==
    [b \in DOMAIN bs |-> [bs[b] EXCEPT !.pos = <<@[1] + bs[b].move[1], @[2] + bs[b].move[2]>>]]

\* 2. pocket detection
pocketXY(bs) ==
    [b \in DOMAIN bs |->
        IF \E p \in pockets : distSq(bs[b].pos, p) < CaptureDist * CaptureDist
        THEN [bs[b] EXCEPT !.potted = TRUE, !.move = <<0, 0>>] ELSE bs[b]]

\* 3. wall collisions, "Hard Clamp": each axis on its own, for the balls
\* on the table outside the pocket zones
clampAxis(x, lo, hi) == IF x < lo THEN lo ELSE IF x > hi THEN hi ELSE x

wallClamp(bs) ==
    [b \in DOMAIN bs |->
        IF bs[b].potted \/ inPocketZoneXY(bs[b].pos) THEN bs[b]
        ELSE [bs[b] EXCEPT !.pos =
                 <<clampAxis(@[1], WallMin + BallRadius, WallMaxX - BallRadius),
                   clampAxis(@[2], WallMin + BallRadius, WallMaxY - BallRadius)>>]]

\* 4. ball-ball collisions, positional correction of a pair lying on one
\* horizontal line: each ball is moved by half of the overlap beyond the
\* slop along n = vecNorm(b1.pos - b2.pos)
correctPair(bs, b1, b2) ==
    LET dx == bs[b1].pos[1] - bs[b2].pos[1]
        dist == Abs(dx)
        n == Sign(dx)
        correctionMag == Max(0, 2 * BallRadius - dist - Slop)
        half == correctionMag \div 2
    IN IF ~bs[b1].potted /\ ~bs[b2].potted /\ dist < 2 * BallRadius /\ correctionMag > 0
       THEN [bs EXCEPT ![b1] = [@ EXCEPT !.pos = <<@[1] + n * half, @[2]>>],
                       ![b2] = [@ EXCEPT !.pos = <<@[1] - n * half, @[2]>>]]
       ELSE bs

\* the positions one sub-step leaves two balls at
subStepXY(bs) == correctPair(wallClamp(pocketXY(integrateXY(bs))), 0, 1)

\* two balls on the line y = CENTER_Y, apart, inside the playable rectangle,
\* with the displacement vel * subDt of the sub-step
RailXs == {2050, 2052, 2790, 2800, 3000, 16000, 29200, 29210, 29950}
RailMoves == {-40, -20, 0, 20, 40}
RailBalls ==
    {bs \in [{0, 1} -> [pos : {<<x, 8000>> : x \in RailXs},
                        move : {<<m, 0>> : m \in RailMoves},
                        potted : {FALSE}]] :
        Abs(bs[0].pos[1] - bs[1].pos[1]) >= 2 * BallRadius}

LastSubStep ==
    /\ fnIn = <<>>
    /\ \E bs \in RailBalls :
          /\ fnIn' = bs
          /\ fnOut' = subStepXY(bs)
    /\ UNCHANGED <<gameVars, hookVars, turnTimer, engineVars, layout, lookTarget,
                   isSnookered, aiShot, kin>>

NextClamp == LastSubStep

SpecClamp == Init /\ [][NextClamp]_vars

InsidePlayable(pos) ==
    /\ WallMin + BallRadius <= pos[1] /\ pos[1] <= WallMaxX - BallRadius
    /\ WallMin + BallRadius <= pos[2] /\ pos[2] <= WallMaxY - BallRadius

\* C36: after the step every ball on the table whose centre is outside the
\* pocket zones has its centre inside the playable rectangle.
C36_BallsStayInsideCushions ==
    fnOut # <<>> =>
        \A b \in DOMAIN fnOut :
            (~fnOut[b].potted /\ ~inPocketZoneXY(fnOut[b].pos))
               => InsidePlayable(fnOut[b].pos)

\* C36, the clamp on its own: a sub-step in which no pair of balls is
\* moved apart leaves every such ball inside the playable rectangle
C36_ClampedWithoutCorrection ==
    fnOut # <<>> =>
        (fnOut = wallClamp(pocketXY(integrateXY(fnIn)))
           => \A b \in DOMAIN fnOut :
                 (~fnOut[b].potted /\ ~inPocketZoneXY(fnOut[b].pos))
                    => InsidePlayable(fnOut[b].pos))

(* ---------------------------------------------------------------- *)
(* Rolling drag and the spin of the cue ball                         *)
(* ---------------------------------------------------------------- *)
\* spin.y in tenths (-10 is full back-spin, 10 full top-spin), speeds and
\* ROLLING_RESISTANCE * timeScale in hundredths
SpinYs == {-10, -5, 0, 5, 10}
RollSpeeds == {0, 10, 15, 20, 28, 40, 100, 300, 1000}
RollDrags == {12, 24, 72}

\* fifty times the drop of the friction pass:
\* drag = ROLLING_RESISTANCE * timeScale, times (1.0 - spin.y * 0.2) for the cue ball
dragDrop(drag, isCue, spinY) ==
    IF isCue THEN drag * (50 - spinY) ELSE drag * 50

\* five hundred times the speed the friction pass leaves
speedAfterDrag(speed, drop) ==
    IF speed < STOP_THRESHOLD THEN 0
    ELSE LET newSpeed == Max(0, speed * 50 - drop)
         IN IF newSpeed < STOP_THRESHOLD * 2 * 50 THEN newSpeed * 9 ELSE newSpeed * 10

\* the friction pass on one ball, next to the same pass with no spin
SpinFriction ==
    /\ fnIn = <<>>
    /\ \E speed \in RollSpeeds, drag \in RollDrags, spinY \in SpinYs, isCue \in BOOLEAN :
          /\ fnIn' = [speed |-> speed, drag |-> drag, spinY |-> spinY, isCue |-> isCue]
          /\ fnOut' = [drop |-> dragDrop(drag, isCue, spinY),
                       after |-> speedAfterDrag(speed, dragDrop(drag, isCue, spinY)),
                       afterNoSpin |-> speedAfterDrag(speed, dragDrop(drag, isCue, 0))]
    /\ UNCHANGED <<gameVars, hookVars, turnTimer, engineVars, layout, lookTarget,
                   isSnookered, aiShot, kin>>

NextSpinDrag == SpinFriction

SpecSpinDrag == Init /\ [][NextSpinDrag]_vars

\* C37: a cue ball with back-spin (spin.y < 0) that is still rolling after
\* the pass has lost less speed than it would with no spin, and for every
\* spin the drop is positive and a rolling ball is slower after the pass.
C37_BackSpinReducesDrag ==
    fnOut # <<>> =>
        /\ (fnIn.isCue /\ fnIn.spinY < 0 /\ fnOut.afterNoSpin > 0)
              => fnOut.after > fnOut.afterNoSpin
        /\ fnOut.drop > 0
        /\ fnIn.speed > 0 => fnOut.after < fnIn.speed * 500

\* C37, what the pass does: top-spin is what lowers the drag of the cue
\* ball, back-spin raises it; the drop is positive for every spin and a
\* rolling ball is slower after every pass
C37_TopSpinReducesDrag ==
    fnOut # <<>> =>
        /\ (fnIn.isCue /\ fnIn.spinY > 0) => fnOut.after >= fnOut.afterNoSpin
        /\ (fnIn.isCue /\ fnIn.spinY < 0) => fnOut.after <= fnOut.afterNoSpin
        /\ fnOut.drop > 0
        /\ fnIn.speed > 0 => fnOut.after < fnIn.speed * 500

\* ---------------------------------------------------------------------
\* The power of a pot before the random error (src/utils/ai.ts 167-182)
\* ---------------------------------------------------------------------

\* distances from the cue ball to the ghost ball, across the whole table
PotPowerDists == {d \in 0..maxDist : d % 20 = 0 \/ d = maxDist}

PotPowerPots == [dist : PotPowerDists, angleDiff : CutAngles]

\* bestPot && bestPot.confidence > safetyThreshold
attemptPot(bestPot, diff) ==
    bestPot # noPot /\ confidence(bestPot) > safetyThreshold(diff)

\* the power of the pot branch, in thousandths, before power * powerError
potPower(bestPot, diff) ==
    LET power == 35000 + (bestPot.dist * 1000) \div 8
    IN IF diff = "HARD" THEN Min(85000, power + 10000) ELSE power

\* the same pot is put to the three difficulties
PotPowerCall ==
    /\ fnIn = <<>>
    /\ \E bestPot \in PotPowerPots :
          /\ fnIn' = bestPot
          /\ fnOut' = [diff \in AIDifficulties |->
                         [attemptPot |-> attemptPot(bestPot, diff),
                          power |-> potPower(bestPot, diff)]]
    /\ UNCHANGED <<gameVars, hookVars, turnTimer, engineVars, layout, lookTarget, isSnookered, aiShot, kin>>

NextPotPower == PotPowerCall

SpecPotPower == Init /\ [][NextPotPower]_vars

\* C38: whenever Hard and an easier difficulty both attempt the same pot,
\* the power Hard chooses before the random error is at least the power the
\* easier difficulty chooses, at every distance on the table
C38_HardAtLeastAsFirm ==
    fnOut # <<>> =>
        \A diff \in {"EASY", "MEDIUM"} :
            (fnOut["HARD"].attemptPot /\ fnOut[diff].attemptPot)
                => fnOut["HARD"].power >= fnOut[diff].power

\* C38, the part that holds: up to 400 px from the ghost ball Hard is never
\* softer, and up to 320 px it is firmer by exactly 10
C38_HardFirmerOnShortPots ==
    fnOut # <<>> =>
        \A diff \in {"EASY", "MEDIUM"} :
            /\ fnIn.dist <= 400 => fnOut["HARD"].power >= fnOut[diff].power
            /\ fnIn.dist <= 320 => fnOut["HARD"].power = fnOut[diff].power + 10000

\* ---------------------------------------------------------------------
\* usePhysicsLoop: the fixed-step accumulator (src/vite.config.ts 2605-2643)
\* ---------------------------------------------------------------------

\* times are counted in thirds of a millisecond, the unit in which
\* FIXED_DT = 1000 / 120 ms and MAX_FRAME_DT = 1000 / 15 ms are whole
FIXED_DT == 25
MAX_FRAME_DT == 200
\* the latest timestamp a frame callback is given
MaxClock == 600

\* the time from one frame callback to the next: the same timestamp twice,
\* fractions of a step, one step, a 60 Hz frame, the cap and stalls beyond it
FrameElapsed == {0, 1, 24, 25, 50, 199, 200, 201, 224, 500}

RECURSIVE drain(_, _)
\* while (acc.current >= FIXED_DT) { step(FIXED_DT); acc.current -= FIXED_DT; }
\* calls collects the argument of every call of step
drain(a, calls) ==
    IF a >= FIXED_DT
    THEN drain(a - FIXED_DT, Append(calls, FIXED_DT))
    ELSE [acc |-> a, calls |-> calls]

\* tick without the line "if (frameDt > MAX_FRAME_DT) frameDt = MAX_FRAME_DT"
tickUncapped(t, lastv, accv) ==
    LET from == IF lastv = 0 THEN t ELSE lastv
        elapsed == t - from
        frameDt == elapsed
        d == drain(accv + frameDt, <<>>)
    IN [last |-> t, acc |-> d.acc,
        log |-> [t |-> t, elapsed |-> elapsed, frameDt |-> frameDt,
                 calls |-> d.calls]]

\* tick(t) on the refs last and acc: the refs it leaves and what it did
tick(t, lastv, accv) ==
    LET from == IF lastv = 0 THEN t ELSE lastv
        elapsed == t - from
        frameDt == IF elapsed > MAX_FRAME_DT THEN MAX_FRAME_DT ELSE elapsed
        d == drain(accv + frameDt, <<>>)
    IN [last |-> t, acc |-> d.acc,
        log |-> [t |-> t, elapsed |-> elapsed, frameDt |-> frameDt,
                 calls |-> d.calls]]

\* the component renders with the other value of running: the cleanup of the
\* effect cancels a pending frame, then the effect starts the loop afresh
PhysicsLoopEffect ==
    /\ running' = ~running
    /\ IF running'
       THEN /\ last' = 0
            /\ acc' = 0
            /\ rafId' = "frame"
       ELSE /\ rafId' = null
            /\ UNCHANGED <<last, acc>>
    /\ UNCHANGED <<gameVars, turnTimer, engineVars, fnVars, frameVars,
                   welcomeVars, tickLog>>

\* the browser runs the pending frame callback with a timestamp no earlier
\* than the one before; the callback was created in a render with running
\* true and asks for the next frame
Tick ==
    /\ rafId # null
    /\ running
    /\ \E e \in FrameElapsed :
          LET t == tickLog.t + e
              r == tick(t, last, acc)
          IN /\ t <= MaxClock
             /\ last' = r.last
             /\ acc' = r.acc
             /\ tickLog' = r.log
    /\ UNCHANGED <<gameVars, turnTimer, engineVars, fnVars, frameVars,
                   welcomeVars, running, rafId>>

NextRaf == PhysicsLoopEffect \/ Tick

SpecRaf == Init /\ [][NextRaf]_vars

\* C39: with timestamps that never decrease, every call of step receives
\* FIXED_DT, the elapsed time of a frame is capped at MAX_FRAME_DT before it
\* is accumulated, the accumulator ends every frame in [0, FIXED_DT), and a
\* frame runs at most 8 steps however long the stall
C39_FixedStepLoop ==
    /\ \A i \in 1..Len(tickLog.calls) : tickLog.calls[i] = FIXED_DT
    /\ tickLog.frameDt = Min(tickLog.elapsed, MAX_FRAME_DT)
    /\ 0 <= acc /\ acc < FIXED_DT
    /\ Len(tickLog.calls) <= 8

\* a stall longer than the cap met a remainder in the accumulator: eight
\* steps run and the remainder is kept
C39_Witness ==
    /\ rafId # null
    /\ tickLog.elapsed > MAX_FRAME_DT
    /\ Len(tickLog.calls) = 8
    /\ acc > 0

====
